---- MODULE Spec2Model ----
(***************************************************************************)
(* LionTrade: the market-data stream (data/websocket_manager.py), the      *)
(* sentiment cache (trading/ai_analyzer.py) and the risk gate              *)
(* (trading/risk_manager.py), modelled as state machines.                  *)
(*                                                                         *)
(* Money is modelled in whole USDT and percentages as exact fractions      *)
(* (numerator / denominator), so comparisons are exact where the source    *)
(* uses binary floating point.                                             *)
(***************************************************************************)
EXTENDS Integers, Sequences, FiniteSets, TLC

\* ------------------------------------------------------------------ bounds
\* Connection attempts counted before the counter saturates.
MaxAttempts == 2
\* Inbound frames counted per connection before the counter saturates.
MaxFrames == 2
\* Heartbeat correlation ids the remote end uses.
MaxHeartbeatId == 2
\* Number of clock advances of the model.
MaxClockSteps == 2
\* Calls of ExecutionEngine.act in one run.
MaxActs == 3
\* Calls of MomentumStrategy.on_price in one run.
MaxTicks == 4
\* Finalized candles of the scalping model, and changes of the tick price.
MaxCandles == 23
\* Minutes of the long tick stream: enough to fill the candle history and go
\* on past its capacity.
MaxMinutes == 104
MaxPriceChanges == 1
\* Rows of the file a momentum replay and a scalping replay read.
MomReplayLen == 4
ScalpReplayLen == 24
\* Time of the first tick of a tick stream, in seconds.
FirstTickTime == 600
\* Config.ema_len and Config.zscore_len, scaled down.
ema_len == 2
zscore_len == 2

\* ------------------------------------------------- program constants (cfg)
\* Config.throttle_window, scaled down from the default 20.
throttle_window == 3
\* Config.throttle_threshold_pct = 0.40 as a fraction.
throttle_threshold_num == 2
throttle_threshold_den == 5
\* Config.daily_drawdown_pct = 0.02 as a fraction.
daily_drawdown_num == 2
daily_drawdown_den == 100
\* Config.total_budget_usdt.
total_budget_usdt == 1000
\* Config.zscore_entry = 0.4, as a fraction.
zscore_entry_num == 2
zscore_entry_den == 5
\* Config.take_profit_pct = 0.01 and Config.stop_loss_pct = 0.004.
take_profit_num == 1
take_profit_den == 100
stop_loss_num == 1
stop_loss_den == 250
\* Config.rsi_oversold and Config.rsi_overbought.
rsi_oversold == 45
rsi_overbought == 55
\* generate_signal needs this many finalized candles (line 53).
min_candles == 22
\* on_tick_update keeps at most this many candles (line 29).
candles_cap == 100
\* Config.cooldown_sec.
cooldown_sec == 10
\* Config.large_order_threshold_usdt.
large_order_threshold_usdt == 500
\* AI_Analyzer.cache_duration = 60 * 15 seconds.
cache_duration == 900
\* asyncio.sleep(5) of the reconnect loop.
reconnect_delay == 5
\* time.time() when the process starts, any value above cache_duration.
StartTime == 1000
\* Seconds by which one clock advance moves the clock.
ClockStep == 450

\* ------------------------------------------------------------- value sets
Labels == {"Bullish", "Bearish", "Neutral"}
Unset == "<unset>"
None == "<none>"
Actions == {"enter_long", "exit"}
\* Signals as the strategies build them: {"action": ..., "price": ...}.
Signals == [action : Actions, price : {100}]
\* Budgets handed to approve_trade, around the drawdown limit B * (1 - d).
Budgets == {979, 980, 981, 1000, 1020}
\* Realized pnl values reported to update_trade_history.
Pnls == {-1, 0, 1}
HeartbeatIds == 1..MaxHeartbeatId

VARIABLES
    \* WebSocketManager.connect / listen
    pc,             \* position of the connect() coroutine
    attempts,       \* websockets.connect calls made so far (saturating)
    opened,         \* whether the current / last attempt opened a connection
    sub_sends,      \* ws.send calls made by subscribe() on this connection
    frames_read,    \* frames taken from the connection (saturating)
    frame,          \* the frame being handled by listen(), or None
    hb_recv,        \* ids of the heartbeat frames read on this connection
    hb_sent,        \* ids of the heartbeat responses handed to ws.send
    waited,         \* seconds slept since the connection ended
    strategy_kind,  \* which strategy class main() constructed
    latest_bid,     \* ScalpingStrategy.latest_bid
    latest_ask,     \* ScalpingStrategy.latest_ask
    \* AI_Analyzer
    ai,             \* [client, sentiment, last_analysis_time]
    now,            \* time.time()
    \* RiskManager
    rm,             \* [starting_budget, trading_paused_drawdown,
                    \*  trade_history, trading_paused_throttle]
    call,           \* the last RiskManager call: its arguments and outcome
    \* Config and ExecutionEngine
    cfg,            \* the Config values the components were built with
    budget,         \* ExecutionEngine.budget, an exact fraction [n, d]
    pos,            \* strat.pos: the open position, or NoPos
    trade_log,      \* the rows log_trade appended to trades.csv
    acts,           \* calls of ExecutionEngine.act made so far
    ecall,          \* the last act call: its decision, pre-state and outcome
    \* Strategies
    mom,            \* MomentumStrategy: [last_signal_ts, prices, ema]
    mcall,          \* the last on_price call: argument, clock readings, result
    scalp,          \* ScalpingStrategy: [candles, current_candle,
                    \*  last_candle_timestamp]
    scall,          \* the last ScalpingStrategy call and its result
    \* run_backtest
    replay          \* the replay driver: its ticks, position and past run

vars == <<pc, attempts, opened, sub_sends, frames_read, frame, hb_recv, hb_sent,
          waited, strategy_kind, latest_bid, latest_ask, ai, now, rm, call,
          cfg, budget, pos, trade_log, acts, ecall, mom, mcall, scalp, scall,
          replay>>

engine_vars == <<cfg, budget, pos, trade_log, acts, ecall>>

strat_vars == <<mom, mcall, scalp, scall, replay>>

\* The state outside the stream, the analyzer and the risk gate.
ext_vars == <<engine_vars, strat_vars>>

stream_vars == <<pc, attempts, opened, sub_sends, frames_read, frame, hb_recv,
                 hb_sent, waited, strategy_kind, latest_bid, latest_ask>>

Min(a, b) == IF a < b THEN a ELSE b
Max(a, b) == IF a < b THEN b ELSE a

RECURSIVE Sum(_)
Sum(s) == IF s = <<>> THEN 0 ELSE Head(s) + Sum(Tail(s))

\* ------------------------------------------------------------ AI_Analyzer
\* What the chat completion can answer: a label, another word, or an error.
Replies == Labels \cup {"Maybe", "<error>"}

\* AI_Analyzer.__init__: sentiment, last_analysis_time and cache_duration are
\* set inside the try block, after the OpenAI client; when the client
\* constructor raises, all three stay unset (sentiment = Unset stands for it).
AI_Analyzer_init(client_ok) ==
    IF client_ok
    THEN [client |-> "ok", sentiment |-> "Neutral", last_analysis_time |-> 0]
    ELSE [client |-> None, sentiment |-> Unset, last_analysis_time |-> 0]

\* AI_Analyzer._get_sentiment_from_ai: anything but one of the three labels,
\* and every API error, comes back as Neutral.
get_sentiment_from_ai(a, reply) ==
    IF a.client = None THEN "Neutral"
    ELSE IF reply \in Labels THEN reply ELSE "Neutral"

\* AI_Analyzer.refresh_sentiment at clock t: [ret, ai].
refresh_sentiment(a, t, reply) ==
    IF a.sentiment = Unset
    THEN [ret |-> "AttributeError", ai |-> a]      \* line 26, self.last_analysis_time
    ELSE IF t - a.last_analysis_time < cache_duration
    THEN [ret |-> "None", ai |-> a]
    ELSE [ret |-> "None",
          ai  |-> [a EXCEPT !.sentiment = get_sentiment_from_ai(a, reply),
                            !.last_analysis_time = t]]

\* ------------------------------------------------------ exact arithmetic
Abs(i) == IF i < 0 THEN 0 - i ELSE i

RECURSIVE GCD(_, _)
GCD(a, b) == IF b = 0 THEN a ELSE GCD(b, a % b)

\* The fraction n / d in lowest terms with a positive denominator.
Frac(n, d) ==
    LET g == GCD(Abs(n), Abs(d))
        sgn == IF d < 0 THEN 0 - 1 ELSE 1
    IN  [n |-> (sgn * n) \div g, d |-> (sgn * d) \div g]

Zero == [n |-> 0, d |-> 1]
RInt(i) == [n |-> i, d |-> 1]
\* a and b over their least common denominator: the two numerators.
OverLcd(a, b) ==
    LET g == GCD(a.d, b.d)
    IN  [an |-> a.n * (b.d \div g), bn |-> b.n * (a.d \div g),
         d |-> (a.d \div g) * b.d]
RAdd(a, b) == LET c == OverLcd(a, b) IN Frac(c.an + c.bn, c.d)
RSub(a, b) == LET c == OverLcd(a, b) IN Frac(c.an - c.bn, c.d)
\* Common factors are cancelled crosswise before the products are taken.
RMul(a, b) ==
    LET g1 == GCD(Abs(a.n), b.d)
        g2 == GCD(Abs(b.n), a.d)
    IN  IF a.n = 0 \/ b.n = 0 THEN Zero
        ELSE Frac((a.n \div g1) * (b.n \div g2), (a.d \div g2) * (b.d \div g1))
RDiv(a, b) == RMul(a, Frac(b.d, b.n))
RLt(a, b) == LET c == OverLcd(a, b) IN c.an < c.bn
RLe(a, b) == LET c == OverLcd(a, b) IN c.an <= c.bn
RMax(a, b) == IF RLt(a, b) THEN b ELSE a

\* ------------------------------------------------------------ RiskManager
\* The attributes RiskManager.__init__ sets on the instance.
RiskManagerAttrs ==
    {"cfg", "ai_analyzer", "starting_budget", "trading_paused_drawdown",
     "trade_history", "trading_paused_throttle"}

RiskManager_init ==
    [starting_budget         |-> total_budget_usdt,
     trading_paused_drawdown |-> FALSE,
     trade_history           |-> <<>>,
     trading_paused_throttle |-> FALSE]

\* drawdown_pct < -daily_drawdown_pct with
\* drawdown_pct = (current_budget - starting_budget) / starting_budget,
\* cross-multiplied (the division flips the comparison for a negative
\* starting budget).  current_budget is the fraction n / d, d > 0.
DrawdownHit(current_budget, starting_budget) ==
    LET diff == current_budget.n - starting_budget * current_budget.d
        lim  == -(daily_drawdown_num * starting_budget * current_budget.d)
    IN  IF starting_budget > 0
        THEN diff * daily_drawdown_den < lim
        ELSE diff * daily_drawdown_den > lim

\* sum(trade_history) / len(trade_history) < throttle_threshold_pct
WinRateBelow(h) ==
    Sum(h) * throttle_threshold_den < throttle_threshold_num * Len(h)

\* RiskManager.approve_trade, lines 20-42: the ordered checks.
approve_checks(r, signal, current_budget, a) ==
    IF signal.action = "enter_long" /\ a.sentiment = "Bearish"
    THEN [ret |-> "False", rm |-> r]
    ELSE IF r.starting_budget = 0
    THEN [ret |-> "ZeroDivisionError", rm |-> r]
    ELSE IF DrawdownHit(current_budget, r.starting_budget)
    THEN [ret |-> "False", rm |-> [r EXCEPT !.trading_paused_drawdown = TRUE]]
    ELSE IF r.trading_paused_throttle
    THEN [ret |-> "False", rm |-> r]
    ELSE IF Len(r.trade_history) = throttle_window
    THEN IF throttle_window = 0
         THEN [ret |-> "ZeroDivisionError", rm |-> r]
         ELSE IF WinRateBelow(r.trade_history)
         THEN [ret |-> "False", rm |-> [r EXCEPT !.trading_paused_throttle = TRUE]]
         ELSE [ret |-> "True", rm |-> r]
    ELSE [ret |-> "True", rm |-> r]

\* Mutant of approve_trade: the sentiment veto is tested first and for every
\* action, not only for enter_long.
approve_trade_veto_any_action(r, signal, current_budget, a) ==
    IF a.sentiment = Unset
    THEN [ret |-> "AttributeError", rm |-> r]
    ELSE IF a.sentiment = "Bearish"
    THEN [ret |-> "False", rm |-> r]
    ELSE IF "log" \notin RiskManagerAttrs
    THEN [ret |-> "AttributeError", rm |-> r]
    ELSE approve_checks(r, signal, current_budget, a)

\* Mutant of approve_trade: the instance has a logger, so line 18 passes.
approve_trade_with_log(r, signal, current_budget, a) ==
    IF a.sentiment = Unset
    THEN [ret |-> "AttributeError", rm |-> r]
    ELSE approve_checks(r, signal, current_budget, a)

\* Mutant of approve_trade: the instance has a logger and the win-rate check
\* does not wait for a full window.
approve_trade_throttle_unguarded(r, signal, current_budget, a) ==
    LET res == IF a.sentiment = Unset
               THEN [ret |-> "AttributeError", rm |-> r]
               ELSE approve_checks(r, signal, current_budget, a)
    IN  IF /\ res.ret = "True"
           /\ Len(r.trade_history) > 0
           /\ WinRateBelow(r.trade_history)
        THEN [ret |-> "False", rm |-> [r EXCEPT !.trading_paused_throttle = TRUE]]
        ELSE res

\* RiskManager.approve_trade: [ret, rm].  ret is "True", "False" or the
\* exception the call ends with.  Line 17 reads the analyzer's sentiment
\* attribute; line 18 reads self.log, an attribute __init__ never sets and
\* no other code of the repository sets on a RiskManager.
approve_trade(r, signal, current_budget, a) ==
    IF a.sentiment = Unset
    THEN [ret |-> "AttributeError", rm |-> r]
    ELSE IF "log" \notin RiskManagerAttrs
    THEN [ret |-> "AttributeError", rm |-> r]
    ELSE approve_checks(r, signal, current_budget, a)

\* Mutant of deque_append: an append to a full window evicts nothing.
deque_append_unbounded(h, x) == Append(h, x)

\* deque(maxlen=throttle_window).append(x)
deque_append(h, x) ==
    IF throttle_window = 0 THEN <<>>
    ELSE IF Len(h) = throttle_window THEN Append(Tail(h), x)
    ELSE Append(h, x)

\* RiskManager.update_trade_history: [ret, rm].
update_trade_history(r, pnl) ==
    LET h  == deque_append(r.trade_history, IF pnl > 0 THEN 1 ELSE 0)
        r1 == [r EXCEPT !.trade_history = h]
    IN  IF ~r.trading_paused_throttle THEN [ret |-> "None", rm |-> r1]
        ELSE IF Len(h) = 0 THEN [ret |-> "ZeroDivisionError", rm |-> r1]
        ELSE IF ~WinRateBelow(h)
        THEN [ret |-> "None", rm |-> [r1 EXCEPT !.trading_paused_throttle = FALSE]]
        ELSE [ret |-> "None", rm |-> r1]

NoCall ==
    [op |-> None, signal |-> None, budget |-> 0, pnl |-> 0,
     sentiment |-> None, ret |-> None, pre |-> RiskManager_init]

\* A client calls risk_manager.approve_trade(signal, current_budget).
ApproveTradeCall ==
    /\ UNCHANGED ext_vars
    /\ \E s \in Signals, b \in Budgets :
           LET res == approve_trade(rm, s, RInt(b), ai)
           IN  /\ rm' = res.rm
               /\ call' = [op |-> "approve_trade", signal |-> s, budget |-> b,
                           pnl |-> 0, sentiment |-> ai.sentiment,
                           ret |-> res.ret, pre |-> rm]
               /\ UNCHANGED <<stream_vars, ai, now>>

\* A client calls risk_manager.update_trade_history(pnl).
UpdateTradeHistoryCall ==
    /\ UNCHANGED ext_vars
    /\ \E p \in Pnls :
           LET res == update_trade_history(rm, p)
           IN  /\ rm' = res.rm
               /\ call' = [op |-> "update_trade_history", signal |-> None,
                           budget |-> 0, pnl |-> p, sentiment |-> ai.sentiment,
                           ret |-> res.ret, pre |-> rm]
               /\ UNCHANGED <<stream_vars, ai, now>>

\* ai_analyzer.refresh_sentiment() with the analysis service answering reply.
RefreshSentimentCall ==
    /\ UNCHANGED ext_vars
    /\ \E reply \in Replies :
           LET res == refresh_sentiment(ai, now, reply)
           IN  /\ ai' = res.ai
               /\ call' = [op |-> "refresh_sentiment", signal |-> None,
                           budget |-> 0, pnl |-> 0, sentiment |-> ai.sentiment,
                           ret |-> res.ret, pre |-> rm, reply |-> reply,
                           fetched |-> /\ ai.sentiment # Unset
                                       /\ now - ai.last_analysis_time >= cache_duration]
               /\ UNCHANGED <<stream_vars, now, rm>>

\* The wall clock advances.
ClockAdvance ==
    /\ now < StartTime + MaxClockSteps * ClockStep
    /\ now' = now + ClockStep
    /\ UNCHANGED <<stream_vars, ai, rm, call>>
    /\ UNCHANGED ext_vars

\* An absent price (Python None).
NoPrice == 0 - 1

\* -------------------------------------------------------- ExecutionEngine
\* Config values of the model: the budget, the risked fraction, the
\* execution mode.  Config reads them from config.json without validation.
StartBudgets == {0 - 1000, 0, 1000}
RiskPcts == {Frac(1, 100), Frac(3, 4), Frac(1, 1)}
ExecutionModes == {"auto", "twap", "limit"}
Configs ==
    [total_budget_usdt : StartBudgets, risk_per_trade_pct : RiskPcts,
     execution_mode : ExecutionModes]

\* The Config defaults (crypto_com_momo_bot.py, lines 44-57).
DefaultConfig ==
    [total_budget_usdt |-> total_budget_usdt,
     risk_per_trade_pct |-> Frac(1, 100),
     execution_mode |-> "auto"]

NoPos == [side |-> "none", qty |-> Zero, entry |-> 0]

\* The decisions handed to act: a signal with its price (NoPrice: the key
\* is missing) and reason, or nothing.
DecisionPrices == {NoPrice, 0, 100, 110}
Decisions ==
    [action : Actions, price : DecisionPrices, reason : {""}]
    \cup [action : {"none"}, price : {NoPrice}, reason : {""}]

\* Mutant of order_size: the quotient without the floor at 0.
order_size_no_floor(b, risk, price) ==
    IF price = NoPrice \/ price <= 0 THEN Zero
    ELSE RDiv(RMul(b, risk), RInt(price))

\* Mutant of order_size: the whole budget is committed on top of the risked
\* fraction.
order_size_leveraged(b, risk, price) ==
    IF price = NoPrice \/ price <= 0 THEN Zero
    ELSE RMax(RDiv(RMul(b, RAdd(risk, RInt(1))), RInt(price)), Zero)

\* ExecutionEngine._order_size.
order_size(b, risk, price) ==
    IF price = NoPrice \/ price <= 0 THEN Zero
    ELSE RMax(RDiv(RMul(b, risk), RInt(price)), Zero)

\* getattr(self.strat, 'latest_bid' / 'latest_ask', decision.get('price')):
\* ScalpingStrategy has the attribute (None until a book update sets it),
\* MomentumStrategy has not, so the default applies.
fill_price(kind, book_price, decision) ==
    IF kind = "scalping" THEN book_price ELSE decision.price

\* Mutant of entry_reason: the threshold selects the route in every mode.
entry_reason_any_mode(mode, notional) ==
    IF RLt(RInt(large_order_threshold_usdt), notional) \/ mode = "twap"
    THEN "twap_entry" ELSE "smart_limit_entry"

\* The route of an entry, line 61:
\* mode == 'auto' and notional > threshold or mode == 'twap'.
entry_reason(mode, notional) ==
    IF (mode = "auto" /\ RLt(RInt(large_order_threshold_usdt), notional))
           \/ mode = "twap"
    THEN "twap_entry" ELSE "smart_limit_entry"

\* Mutant of act_exit: an executed exit is not reported to the risk manager.
act_exit_no_report(e, decision, kind, ask, r) ==
    LET exit_price == fill_price(kind, ask, decision)
        noop == [budget |-> e.budget, pos |-> e.pos, log |-> e.log, rm |-> r,
                 done |-> "noop"]
    IN  IF e.pos = NoPos THEN noop
        ELSE IF exit_price = NoPrice THEN noop
        ELSE IF e.pos.entry <= 0 \/ RLe(e.pos.qty, Zero)
        THEN [noop EXCEPT !.pos = NoPos, !.done = "cleared"]
        ELSE LET pnl == RMul(RInt(exit_price - e.pos.entry), e.pos.qty)
             IN  [budget |-> RAdd(e.budget, pnl),
                  pos    |-> NoPos,
                  log    |-> Append(e.log,
                                [action |-> "EXIT", side |-> e.pos.side,
                                 price |-> exit_price, qty |-> e.pos.qty,
                                 reason |-> decision.reason, pnl |-> pnl]),
                  rm     |-> r,
                  done   |-> "exit"]

\* Mutant of act_exit: an exit with no open position is logged as a flat
\* EXIT record.
act_exit_logs_without_position(e, decision, kind, ask, r) ==
    LET exit_price == fill_price(kind, ask, decision)
        noop == [budget |-> e.budget, pos |-> e.pos, log |-> e.log, rm |-> r,
                 done |-> "noop"]
    IN  IF e.pos = NoPos
        THEN [noop EXCEPT !.log = Append(e.log,
                                [action |-> "EXIT", side |-> "LONG",
                                 price |-> exit_price, qty |-> Zero,
                                 reason |-> decision.reason, pnl |-> Zero])]
        ELSE IF exit_price = NoPrice THEN noop
        ELSE IF e.pos.entry <= 0 \/ RLe(e.pos.qty, Zero)
        THEN [noop EXCEPT !.pos = NoPos, !.done = "cleared"]
        ELSE LET pnl == RMul(RInt(exit_price - e.pos.entry), e.pos.qty)
             IN  [budget |-> RAdd(e.budget, pnl),
                  pos    |-> NoPos,
                  log    |-> Append(e.log,
                                [action |-> "EXIT", side |-> e.pos.side,
                                 price |-> exit_price, qty |-> e.pos.qty,
                                 reason |-> decision.reason, pnl |-> pnl]),
                  rm     |-> update_trade_history(r, pnl.n).rm,
                  done   |-> "exit"]

\* Mutant of act_exit: an executed exit leaves the position open.
act_exit_keeps_position(e, decision, kind, ask, r) ==
    LET exit_price == fill_price(kind, ask, decision)
        noop == [budget |-> e.budget, pos |-> e.pos, log |-> e.log, rm |-> r,
                 done |-> "noop"]
    IN  IF e.pos = NoPos THEN noop
        ELSE IF exit_price = NoPrice THEN noop
        ELSE IF e.pos.entry <= 0 \/ RLe(e.pos.qty, Zero)
        THEN [noop EXCEPT !.pos = NoPos, !.done = "cleared"]
        ELSE LET pnl == RMul(RInt(exit_price - e.pos.entry), e.pos.qty)
             IN  [budget |-> RAdd(e.budget, pnl),
                  pos    |-> e.pos,
                  log    |-> Append(e.log,
                                [action |-> "EXIT", side |-> e.pos.side,
                                 price |-> exit_price, qty |-> e.pos.qty,
                                 reason |-> decision.reason, pnl |-> pnl]),
                  rm     |-> update_trade_history(r, pnl.n).rm,
                  done   |-> "exit"]

\* ExecutionEngine.act, lines 27-44: an exit decision.
\* e = [budget, pos, log]; the result adds rm and what was done.
act_exit(e, decision, kind, ask, r) ==
    LET exit_price == fill_price(kind, ask, decision)
        noop == [budget |-> e.budget, pos |-> e.pos, log |-> e.log, rm |-> r,
                 done |-> "noop"]
    IN  IF e.pos = NoPos THEN noop
        ELSE IF exit_price = NoPrice THEN noop
        ELSE IF e.pos.entry <= 0 \/ RLe(e.pos.qty, Zero)
        THEN [noop EXCEPT !.pos = NoPos, !.done = "cleared"]
        ELSE LET pnl == RMul(RInt(exit_price - e.pos.entry), e.pos.qty)
             IN  [budget |-> RAdd(e.budget, pnl),
                  pos    |-> NoPos,
                  log    |-> Append(e.log,
                                [action |-> "EXIT", side |-> e.pos.side,
                                 price |-> exit_price, qty |-> e.pos.qty,
                                 reason |-> decision.reason, pnl |-> pnl]),
                  rm     |-> update_trade_history(r, pnl.n).rm,  \* sign of pnl
                  done   |-> "exit"]

\* Mutant of act_enter: an executed entry pays its notional from the budget.
act_enter_deducts_notional(e, decision, kind, bid, c, r) ==
    LET price == fill_price(kind, bid, decision)
        qty == order_size(e.budget, c.risk_per_trade_pct, price)
    IN  IF e.pos # NoPos \/ price = NoPrice \/ RLe(qty, Zero)
        THEN [budget |-> e.budget, pos |-> e.pos, log |-> e.log, rm |-> r,
              done |-> "noop"]
        ELSE [budget |-> RSub(e.budget, RMul(qty, RInt(price))),
              pos |-> [side |-> "LONG", qty |-> qty, entry |-> price],
              log |-> e.log, rm |-> r, done |-> "enter"]

\* Mutant of act_enter: an entry replaces the position that is open.
act_enter_replaces(e, decision, kind, bid, c, r) ==
    LET price == fill_price(kind, bid, decision)
        qty == order_size(e.budget, c.risk_per_trade_pct, price)
    IN  IF price = NoPrice \/ RLe(qty, Zero)
        THEN [budget |-> e.budget, pos |-> e.pos, log |-> e.log, rm |-> r,
              done |-> "noop"]
        ELSE [budget |-> e.budget,
              pos |-> [side |-> "LONG", qty |-> qty, entry |-> price],
              log |-> e.log, rm |-> r, done |-> "enter"]

\* ExecutionEngine.act, lines 47-74: an enter_long decision.
act_enter(e, decision, kind, bid, c, r) ==
    LET price == fill_price(kind, bid, decision)
        qty == order_size(e.budget, c.risk_per_trade_pct, price)
        notional == RMul(qty, RInt(price))
        noop == [budget |-> e.budget, pos |-> e.pos, log |-> e.log, rm |-> r,
                 done |-> "noop"]
    IN  IF e.pos # NoPos THEN noop
        ELSE IF price = NoPrice THEN noop
        ELSE IF RLe(qty, Zero) THEN noop
        ELSE [budget |-> e.budget,
              pos    |-> [side |-> "LONG", qty |-> qty, entry |-> price],
              log    |-> Append(e.log,
                            [action |-> "ENTER", side |-> "LONG",
                             price |-> price, qty |-> qty,
                             reason |-> entry_reason(c.execution_mode, notional),
                             pnl |-> Zero]),
              rm     |-> r,
              done   |-> "enter"]

\* ExecutionEngine.act(decision).
act(e, decision, kind, bid, ask, c, r) ==
    IF decision.action = "exit" THEN act_exit(e, decision, kind, ask, r)
    ELSE IF decision.action = "enter_long"
    THEN act_enter(e, decision, kind, bid, c, r)
    ELSE [budget |-> e.budget, pos |-> e.pos, log |-> e.log, rm |-> r,
          done |-> "noop"]

NoDecision == [action |-> "none", price |-> NoPrice, reason |-> ""]

\* The last call made on the engine: the method, its argument, the budget,
\* position and book prices it found, and how it ended.
NoEngineCall ==
    [op |-> None, decision |-> NoDecision, budget |-> Zero, pos |-> NoPos,
     done |-> None, size |-> Zero, bid |-> NoPrice, ask |-> NoPrice]

\* A caller hands a decision to execution_engine.act.
ActCall ==
    /\ acts < MaxActs
    /\ \E decision \in Decisions :
         LET out == act([budget |-> budget, pos |-> pos, log |-> trade_log],
                        decision, strategy_kind, latest_bid, latest_ask, cfg, rm)
         IN  /\ budget' = out.budget
             /\ pos' = out.pos
             /\ trade_log' = out.log
             /\ rm' = out.rm
             /\ ecall' = [op |-> "act", decision |-> decision,
                          budget |-> budget, pos |-> pos, done |-> out.done,
                          size |-> Zero, bid |-> latest_bid, ask |-> latest_ask]
    /\ acts' = acts + 1
    /\ UNCHANGED <<pc, attempts, opened, sub_sends, frames_read, frame, hb_recv,
                   hb_sent, waited, strategy_kind, latest_bid, latest_ask, ai,
                   now, call, cfg>>
    /\ UNCHANGED strat_vars

\* The signal pipeline of run_backtest (lines 72-74) and _route_data:
\*   if signal:
\*       if risk_manager.approve_trade(signal, execution_engine.budget):
\*           execution_engine.act(signal)
\* An exception of approve_trade leaves the pipeline before act.
SubmitSignal ==
    /\ acts < MaxActs
    /\ \E decision \in {d \in Decisions : d.action \in Actions /\ d.price > 0} :
         LET res == approve_trade(rm, decision, budget, ai)
             out == IF res.ret = "True"
                    THEN act([budget |-> budget, pos |-> pos, log |-> trade_log],
                             decision, strategy_kind, latest_bid, latest_ask,
                             cfg, res.rm)
                    ELSE [budget |-> budget, pos |-> pos, log |-> trade_log,
                          rm |-> res.rm, done |-> res.ret]
         IN  /\ budget' = out.budget
             /\ pos' = out.pos
             /\ trade_log' = out.log
             /\ rm' = out.rm
             /\ ecall' = [op |-> "pipeline", decision |-> decision,
                          budget |-> budget, pos |-> pos, done |-> out.done,
                          size |-> Zero, bid |-> latest_bid, ask |-> latest_ask]
    /\ acts' = acts + 1
    /\ UNCHANGED <<pc, attempts, opened, sub_sends, frames_read, frame, hb_recv,
                   hb_sent, waited, strategy_kind, latest_bid, latest_ask, ai,
                   now, call, cfg>>
    /\ UNCHANGED strat_vars

\* A caller asks execution_engine._order_size(price).
OrderSizeCall ==
    /\ \E price \in DecisionPrices \cup {0 - 5, 50} :
         ecall' = [op |-> "_order_size",
                   decision |-> [action |-> "none", price |-> price,
                                 reason |-> ""],
                   budget |-> budget, pos |-> pos, done |-> "size",
                   size |-> order_size(budget, cfg.risk_per_trade_pct, price),
                   bid |-> latest_bid, ask |-> latest_ask]
    /\ UNCHANGED <<stream_vars, ai, now, rm, call, cfg, budget, pos, trade_log,
                   acts>>
    /\ UNCHANGED strat_vars

\* ------------------------------------------------------- MomentumStrategy
\* A clock reading that was never taken.
NoTime == 0 - 1
\* self._ema = None.
NoEma == [n |-> 0, d |-> 0]

\* Prices handed to on_price: valid ones, 0, and None.
MomPrices == {100, 110}
BadPrices == {0, NoPrice}
\* Seconds the wall clock may advance before a call reads it, and between
\* the reading of _cooldown (line 63) and the reading of line 47.
ClockDeltas == {0, 5, 10}
ReadDeltas == {0, 5}

MomentumStrategy_init ==
    [last_signal_ts |-> 0, prices |-> <<>>, ema |-> NoEma]

prices_maxlen == Max(ema_len, zscore_len) * 3

\* deque(maxlen = n).append(x)
deque_push(q, x, n) ==
    IF n = 0 THEN <<>>
    ELSE IF Len(q) = n THEN Append(Tail(q), x)
    ELSE Append(q, x)

\* ema(prev, x, alpha), lines 7-8.
ema(prev, x, alpha) ==
    IF prev = NoEma THEN RInt(x)
    ELSE RAdd(RMul(alpha, RInt(x)), RMul(RSub(RInt(1), alpha), prev))

RECURSIVE SumSq(_)
SumSq(q) == IF q = <<>> THEN 0 ELSE Head(q) * Head(q) + SumSq(Tail(q))

\* zscore(series, window) > zscore_entry, lines 10-18 and 46, in integers:
\* with S the sum of the window and Q = n * sum of squares - S^2, the sample
\* deviation is sqrt(Q / (n (n - 1))) and x - mu = (n x - S) / n.  A window
\* of one has deviation nan and a score of nan; a deviation of 0 is replaced
\* by 1.
zscore_above_entry(series, window) ==
    IF Len(series) < window \/ window = 0 THEN FALSE
    ELSE LET arr == SubSeq(series, Len(series) - window + 1, Len(series))
             n == window
             x == arr[n]
             S == Sum(arr)
             Q == n * SumSq(arr) - S * S
             dev == n * x - S
         IN  IF n = 1 THEN FALSE
             ELSE IF Q = 0 THEN zscore_entry_den * dev > zscore_entry_num * n
             ELSE /\ dev > 0
                  /\ zscore_entry_den * zscore_entry_den * (n - 1) * dev * dev
                         > zscore_entry_num * zscore_entry_num * n * Q

\* Mutant of cooldown: the cooldown never holds a signal back.
cooldown_off(t, last_signal_ts) == FALSE

\* MomentumStrategy._cooldown with time.time() = t, lines 62-63.
cooldown(t, last_signal_ts) == (t - last_signal_ts) < cooldown_sec

\* Mutant of on_price: the entry check does not look at the position.
on_price_ignores_position(m, px, p, t1, t2) ==
    IF px = NoPrice \/ px <= 0
    THEN [m |-> m, ret |-> NoDecision, checked |-> FALSE]
    ELSE LET alpha == Frac(2, ema_len + 1)
             e == ema(m.ema, px, alpha)
             q == deque_push(m.prices, px, prices_maxlen)
             m1 == [m EXCEPT !.ema = e, !.prices = q]
             momentum == RSub(RInt(px), IF e = Zero THEN RInt(px) ELSE e)
             wants == /\ Len(q) >= zscore_len
                      /\ RLt(Zero, momentum)
                      /\ zscore_above_entry(q, zscore_len)
         IN  IF wants /\ ~cooldown(t1, m.last_signal_ts)
             THEN [m |-> [m1 EXCEPT !.last_signal_ts = t2],
                   ret |-> [action |-> "enter_long", price |-> px, reason |-> ""],
                   checked |-> TRUE]
             ELSE IF p # NoPos
                     /\ px * take_profit_den
                            >= p.entry * (take_profit_den + take_profit_num)
             THEN [m |-> m1,
                   ret |-> [action |-> "exit", price |-> px, reason |-> "tp"],
                   checked |-> wants]
             ELSE IF p # NoPos
                     /\ px * stop_loss_den
                            <= p.entry * (stop_loss_den + stop_loss_num)
             THEN [m |-> m1,
                   ret |-> [action |-> "exit", price |-> px, reason |-> "sl"],
                   checked |-> wants]
             ELSE [m |-> m1, ret |-> NoDecision, checked |-> wants]

\* Mutant of exit_check: the stop-loss test is made before the take-profit
\* test.
exit_check_sl_first(p, px, tp_pct, sl_pct) ==
    LET tp == RMul(RInt(p.entry), RAdd(RInt(1), tp_pct))
        sl == RMul(RInt(p.entry), RAdd(RInt(1), sl_pct))
    IN  IF p = NoPos THEN NoDecision
        ELSE IF RLe(RInt(px), sl)
        THEN [action |-> "exit", price |-> px, reason |-> "sl"]
        ELSE IF RLe(tp, RInt(px))
        THEN [action |-> "exit", price |-> px, reason |-> "tp"]
        ELSE NoDecision

\* Mutant of exit_check: the stop-loss test fires on a favourable move only,
\* not below the entry price.
exit_check_sl_above_entry(p, px, tp_pct, sl_pct) ==
    LET tp == RMul(RInt(p.entry), RAdd(RInt(1), tp_pct))
        sl == RMul(RInt(p.entry), RAdd(RInt(1), sl_pct))
    IN  IF p = NoPos THEN NoDecision
        ELSE IF RLe(tp, RInt(px))
        THEN [action |-> "exit", price |-> px, reason |-> "tp"]
        ELSE IF RLe(RInt(px), sl) /\ p.entry <= px
        THEN [action |-> "exit", price |-> px, reason |-> "sl"]
        ELSE NoDecision

\* MomentumStrategy.on_price, lines 51-58: the exit logic for the position p
\* with cfg.take_profit_pct = tp_pct and cfg.stop_loss_pct = sl_pct.
exit_check(p, px, tp_pct, sl_pct) ==
    LET tp == RMul(RInt(p.entry), RAdd(RInt(1), tp_pct))
        sl == RMul(RInt(p.entry), RAdd(RInt(1), sl_pct))
    IN  IF p = NoPos THEN NoDecision
        ELSE IF RLe(tp, RInt(px))
        THEN [action |-> "exit", price |-> px, reason |-> "tp"]
        ELSE IF RLe(RInt(px), sl)
        THEN [action |-> "exit", price |-> px, reason |-> "sl"]
        ELSE NoDecision

\* MomentumStrategy.on_price(px), lines 31-60, with the position p it finds
\* in self.pos, the clock readings t1 (in _cooldown) and t2 (line 47) and the
\* exit thresholds of cfg.
\* [m, ret, checked]: checked tells whether _cooldown was called.
on_price_cfg(m, px, p, t1, t2, tp_pct, sl_pct) ==
    IF px = NoPrice \/ px <= 0
    THEN [m |-> m, ret |-> NoDecision, checked |-> FALSE]
    ELSE LET alpha == Frac(2, ema_len + 1)
             e == ema(m.ema, px, alpha)
             q == deque_push(m.prices, px, prices_maxlen)
             m1 == [m EXCEPT !.ema = e, !.prices = q]
             momentum == RSub(RInt(px), IF e = Zero THEN RInt(px) ELSE e)
             wants == /\ p = NoPos
                      /\ Len(q) >= zscore_len
                      /\ RLt(Zero, momentum)
                      /\ zscore_above_entry(q, zscore_len)
         IN  IF wants /\ ~cooldown(t1, m.last_signal_ts)
             THEN [m |-> [m1 EXCEPT !.last_signal_ts = t2],
                   ret |-> [action |-> "enter_long", price |-> px, reason |-> ""],
                   checked |-> TRUE]
             ELSE [m |-> m1, ret |-> exit_check(p, px, tp_pct, sl_pct),
                   checked |-> wants]

\* on_price under the Config defaults of take_profit_pct and stop_loss_pct.
on_price(m, px, p, t1, t2) ==
    on_price_cfg(m, px, p, t1, t2, Frac(take_profit_num, take_profit_den),
                 Frac(stop_loss_num, stop_loss_den))

\* The last on_price call: its price, its result, the clock readings of
\* _cooldown (t_check) and of line 47 (t_emit), last_signal_ts before the
\* call, the time of the entry signal before this one, and the calls so far.
NoMomCall ==
    [px |-> NoPrice, ret |-> NoDecision, t_check |-> NoTime, t_emit |-> NoTime,
     pre_ts |-> 0, prev_emit |-> NoTime, last_emit |-> NoTime, calls |-> 0]

\* A caller hands a price to strategy.on_price; the wall clock has moved on
\* since the last call and may move between the two readings.
OnPriceCall ==
    /\ strategy_kind = "momentum"
    /\ mcall.calls < MaxTicks
    /\ \E px \in MomPrices \cup BadPrices, d1 \in ClockDeltas, d2 \in ReadDeltas :
         LET t1 == now + d1
             t2 == t1 + d2
             out == on_price(mom, px, pos, t1, t2)
             entered == out.ret.action = "enter_long"
         IN  /\ mom' = out.m
             /\ now' = IF entered THEN t2 ELSE t1
             /\ mcall' = [px |-> px, ret |-> out.ret,
                          t_check |-> IF out.checked THEN t1 ELSE NoTime,
                          t_emit |-> IF entered THEN t2 ELSE NoTime,
                          pre_ts |-> mom.last_signal_ts,
                          prev_emit |-> IF entered THEN mcall.last_emit
                                        ELSE mcall.prev_emit,
                          last_emit |-> IF entered THEN t2 ELSE mcall.last_emit,
                          calls |-> mcall.calls + 1]
    /\ UNCHANGED <<stream_vars, ai, rm, call, engine_vars, scalp, scall, replay>>

\* The caller hands the signal on_price returned to execution_engine.act.
ActOnSignal ==
    /\ strategy_kind = "momentum"
    /\ acts < MaxActs
    /\ mcall.ret # NoDecision
    /\ LET out == act([budget |-> budget, pos |-> pos, log |-> trade_log],
                      mcall.ret, strategy_kind, latest_bid, latest_ask, cfg, rm)
       IN  /\ budget' = out.budget
           /\ pos' = out.pos
           /\ trade_log' = out.log
           /\ rm' = out.rm
           /\ ecall' = [op |-> "act", decision |-> mcall.ret, budget |-> budget,
                        pos |-> pos, done |-> out.done, size |-> Zero,
                        bid |-> latest_bid, ask |-> latest_ask]
    /\ acts' = acts + 1
    /\ mcall' = [mcall EXCEPT !.ret = NoDecision]
    /\ UNCHANGED <<stream_vars, ai, now, call, cfg, mom, scalp, scall, replay>>

\* The exit thresholds a configuration may carry: the default stop_loss_pct,
\* one above take_profit_pct, and a negative one.
StopLossPcts == {Frac(stop_loss_num, stop_loss_den), Frac(1, 50), Frac(0 - 1, 250)}
HeldConfigs ==
    [total_budget_usdt : {total_budget_usdt},
     risk_per_trade_pct : {Frac(1, 100)},
     execution_mode : {"auto"},
     take_profit_pct : {Frac(take_profit_num, take_profit_den)},
     stop_loss_pct : StopLossPcts]

\* Entry prices of the position held, and the prices on_price then sees.
HeldEntries == {500, 1000}
HeldPrices == {990, 1003, 1004, 1005, 1010, 1015}

\* A caller hands a price to strategy.on_price while a position is held and
\* does not act on the result.
OnPriceHeld ==
    /\ strategy_kind = "momentum"
    /\ pos # NoPos
    /\ mcall.calls < MaxTicks
    /\ \E px \in HeldPrices \cup BadPrices :
         LET out == on_price_cfg(mom, px, pos, now, now, cfg.take_profit_pct,
                                 cfg.stop_loss_pct)
         IN  /\ mom' = out.m
             /\ mcall' = [px |-> px, ret |-> out.ret, t_check |-> NoTime,
                          t_emit |-> NoTime, pre_ts |-> mom.last_signal_ts,
                          prev_emit |-> mcall.prev_emit,
                          last_emit |-> mcall.last_emit,
                          calls |-> mcall.calls + 1]
    /\ UNCHANGED <<stream_vars, ai, now, rm, call, engine_vars, scalp, scall,
                   replay>>

\* ------------------------------------------------------- ScalpingStrategy
\* self.current_candle = None.
NoCandle ==
    [open |-> NoPrice, high |-> NoPrice, low |-> NoPrice, close |-> NoPrice,
     volume |-> 0]

ScalpingStrategy_init ==
    [candles |-> <<>>, current_candle |-> NoCandle,
     last_candle_timestamp |-> NoTime]

\* Tick prices of the scalping model, and the seconds from one tick to the
\* next; the first tick comes at FirstTickTime.
ScalpPrices == {100, 110}
TickGaps == {0, 60}

\* timestamp.floor('1min'), timestamps in seconds.
floor_1min(ts) == ts - (ts % 60)

\* Mutant of on_tick_update: a candle is finalized by every tick after the
\* first, also within its own minute.
on_tick_update_every_tick(s, price, timestamp) ==
    IF price = NoPrice \/ timestamp = NoTime THEN [s |-> s, ret |-> FALSE]
    ELSE LET current_candle_ts == floor_1min(timestamp)
             finalized == s.last_candle_timestamp # NoTime
             row == [ts |-> s.last_candle_timestamp,
                     candle |-> s.current_candle]
             grown == Append(s.candles, row)
             kept == IF ~finalized THEN s.candles
                     ELSE IF Len(grown) > candles_cap THEN Tail(grown)
                     ELSE grown
             fresh == finalized \/ s.current_candle = NoCandle
             c0 == [open |-> price, high |-> price, low |-> price,
                    close |-> price, volume |-> 0]
         IN  [s |-> [candles |-> kept,
                     current_candle |-> c0,
                     last_candle_timestamp |-> current_candle_ts],
              ret |-> finalized]

\* Mutant of on_tick_update: at capacity the newest candle is the one dropped.
on_tick_update_drops_newest(s, price, timestamp) ==
    IF price = NoPrice \/ timestamp = NoTime THEN [s |-> s, ret |-> FALSE]
    ELSE LET current_candle_ts == floor_1min(timestamp)
             finalized == /\ s.last_candle_timestamp # NoTime
                          /\ s.last_candle_timestamp < current_candle_ts
             row == [ts |-> s.last_candle_timestamp,
                     candle |-> s.current_candle]
             grown == Append(s.candles, row)
             kept == IF ~finalized THEN s.candles
                     ELSE IF Len(grown) > candles_cap
                     THEN SubSeq(grown, 1, candles_cap)
                     ELSE grown
             fresh == finalized \/ s.current_candle = NoCandle
             c0 == IF fresh
                   THEN [open |-> price, high |-> price, low |-> price,
                         close |-> price, volume |-> 0]
                   ELSE s.current_candle
             c1 == [c0 EXCEPT !.high = Max(c0.high, price),
                              !.low = Min(c0.low, price),
                              !.close = price]
         IN  [s |-> [candles |-> kept,
                     current_candle |-> c1,
                     last_candle_timestamp |->
                         IF fresh THEN current_candle_ts
                         ELSE s.last_candle_timestamp],
              ret |-> finalized]

\* ScalpingStrategy.on_tick_update(tick_data), lines 17-42: [s, ret].
\* A row of the candle history is the candle with its index label ts.
on_tick_update(s, price, timestamp) ==
    IF price = NoPrice \/ timestamp = NoTime THEN [s |-> s, ret |-> FALSE]
    ELSE LET current_candle_ts == floor_1min(timestamp)
             finalized == /\ s.last_candle_timestamp # NoTime
                          /\ s.last_candle_timestamp < current_candle_ts
             row == [ts |-> s.last_candle_timestamp,
                     candle |-> s.current_candle]
             grown == Append(s.candles, row)
             kept == IF ~finalized THEN s.candles
                     ELSE IF Len(grown) > candles_cap THEN Tail(grown)
                     ELSE grown
             fresh == finalized \/ s.current_candle = NoCandle
             c0 == IF fresh
                   THEN [open |-> price, high |-> price, low |-> price,
                         close |-> price, volume |-> 0]
                   ELSE s.current_candle
             c1 == [c0 EXCEPT !.high = Max(c0.high, price),
                              !.low = Min(c0.low, price),
                              !.close = price]
         IN  [s |-> [candles |-> kept,
                     current_candle |-> c1,
                     last_candle_timestamp |->
                         IF fresh THEN current_candle_ts
                         ELSE s.last_candle_timestamp],
              ret |-> finalized]

\* What pandas_ta reports for the last two rows of a history of at least 22
\* candles: EMA_9 and EMA_21 of the previous and of the last row, RSI_14 of
\* the last row.  The values are the library's; the model ranges over them.
Indicators ==
    [ema9_prev : {1, 3}, ema21_prev : {2}, ema9_last : {1, 3},
     ema21_last : {2}, rsi : {40, 50, 60}]

\* Mutant of generate_signal: one candle fewer is enough.
generate_signal_from_21(s, ind) ==
    IF Len(s.candles) < min_candles - 1 THEN NoDecision
    ELSE IF ind.rsi < rsi_oversold
    THEN [action |-> "enter_long",
          price |-> s.candles[Len(s.candles)].candle.close, reason |-> ""]
    ELSE NoDecision

\* Mutant of generate_signal: the sell conditions are tested before the buy
\* conditions.
generate_signal_sell_first(s, ind) ==
    IF Len(s.candles) < min_candles THEN NoDecision
    ELSE LET last_close == s.candles[Len(s.candles)].candle.close
             ema_buy_signal == /\ ind.ema9_prev < ind.ema21_prev
                               /\ ind.ema9_last > ind.ema21_last
             rsi_buy_signal == ind.rsi < rsi_oversold
             ema_sell_signal == /\ ind.ema9_prev > ind.ema21_prev
                                /\ ind.ema9_last < ind.ema21_last
             rsi_sell_signal == ind.rsi > rsi_overbought
         IN  IF ema_sell_signal \/ rsi_sell_signal
             THEN [action |-> "exit", price |-> last_close, reason |-> ""]
             ELSE IF ema_buy_signal \/ rsi_buy_signal
             THEN [action |-> "enter_long", price |-> last_close, reason |-> ""]
             ELSE NoDecision

\* ScalpingStrategy.generate_signal, lines 51-83, with the indicator values
\* ind of the library for the current history.
generate_signal(s, ind) ==
    IF Len(s.candles) < min_candles THEN NoDecision
    ELSE LET last_close == s.candles[Len(s.candles)].candle.close
             ema_buy_signal == /\ ind.ema9_prev < ind.ema21_prev
                               /\ ind.ema9_last > ind.ema21_last
             rsi_buy_signal == ind.rsi < rsi_oversold
             ema_sell_signal == /\ ind.ema9_prev > ind.ema21_prev
                                /\ ind.ema9_last < ind.ema21_last
             rsi_sell_signal == ind.rsi > rsi_overbought
         IN  IF ema_buy_signal \/ rsi_buy_signal
             THEN [action |-> "enter_long", price |-> last_close, reason |-> ""]
             ELSE IF ema_sell_signal \/ rsi_sell_signal
             THEN [action |-> "exit", price |-> last_close, reason |-> ""]
             ELSE NoDecision

\* No indicator values: generate_signal returned before computing them.
NoInd ==
    [ema9_prev |-> 0, ema21_prev |-> 0, ema9_last |-> 0, ema21_last |-> 0,
     rsi |-> 0]

\* The last call on the ScalpingStrategy: the method, the number of candles
\* it found, its result, and the tick stream so far (time and price of the
\* last tick, number of price changes).
NoScalpCall ==
    [op |-> None, len |-> 0, ret |-> NoDecision, finalized |-> FALSE,
     ts |-> NoTime, px |-> NoPrice, changes |-> 0, ind |-> NoInd]

\* A caller hands the next tick of an ordered tick stream to on_tick_update.
OnTickUpdateCall ==
    /\ strategy_kind = "scalping"
    /\ Len(scalp.candles) < MaxCandles
    /\ \E price \in ScalpPrices, gap \in TickGaps :
         LET ts == IF scall.ts = NoTime THEN FirstTickTime ELSE scall.ts + gap
             changed == scall.px # NoPrice /\ price # scall.px
             out == on_tick_update(scalp, price, ts)
         IN  /\ changed => scall.changes < MaxPriceChanges
             /\ scalp' = out.s
             /\ scall' = [op |-> "on_tick_update", len |-> Len(scalp.candles),
                          ret |-> NoDecision, finalized |-> out.ret,
                          ts |-> ts, px |-> price,
                          changes |-> IF changed THEN scall.changes + 1
                                      ELSE scall.changes,
                          ind |-> NoInd]
    /\ UNCHANGED <<stream_vars, ai, now, rm, call, engine_vars, mom, mcall,
                   replay>>

\* A caller hands on_tick_update a long ordered tick stream, one tick a
\* minute; the price may change during the first MaxCandles minutes.
OnMinuteTick ==
    /\ strategy_kind = "scalping"
    /\ scall.ts = NoTime \/ scall.ts < FirstTickTime + 60 * MaxMinutes
    /\ \E price \in ScalpPrices :
         LET ts == IF scall.ts = NoTime THEN FirstTickTime ELSE scall.ts + 60
             changed == scall.px # NoPrice /\ price # scall.px
             out == on_tick_update(scalp, price, ts)
         IN  /\ changed => /\ scall.changes < MaxPriceChanges
                            /\ Len(scalp.candles) < MaxCandles
             /\ scalp' = out.s
             /\ scall' = [op |-> "on_tick_update", len |-> Len(scalp.candles),
                          ret |-> NoDecision, finalized |-> out.ret,
                          ts |-> ts, px |-> price,
                          changes |-> IF changed THEN scall.changes + 1
                                      ELSE scall.changes,
                          ind |-> NoInd]
    /\ UNCHANGED <<stream_vars, ai, now, rm, call, engine_vars, mom, mcall,
                   replay>>

\* A caller asks generate_signal for a signal.
GenerateSignalCall ==
    /\ strategy_kind = "scalping"
    /\ \E ind \in Indicators :
         scall' = [scall EXCEPT !.op = "generate_signal",
                                !.len = Len(scalp.candles),
                                !.ret = generate_signal(scalp, ind),
                                !.finalized = FALSE,
                                !.ind = IF Len(scalp.candles) < min_candles
                                        THEN NoInd ELSE ind]
    /\ UNCHANGED <<stream_vars, ai, now, rm, call, engine_vars, mom, mcall,
                   scalp, replay>>

\* ----------------------------------------------------------- run_backtest
\* MockAIAnalyzer(mock_sentiment), backtest.py lines 11-18.
MockAIAnalyzer(mock_sentiment) ==
    [client |-> None, sentiment |-> mock_sentiment, last_analysis_time |-> 0]

\* The rows of the replayed file: price and timestamp.  Momentum replays
\* range over all price rows of length MomReplayLen; scalping replays are
\* one row a minute, the price stepping up from row j on.
ReplayLow == 10000
ReplayHigh == 20000

MomReplayTicks ==
    {[k \in 1..MomReplayLen |-> [price |-> f[k], ts |-> FirstTickTime + 60 * (k - 1)]] :
        f \in [1..MomReplayLen -> MomPrices]}

ScalpReplayTicks ==
    {[k \in 1..ScalpReplayLen |->
        [price |-> IF k < j THEN ReplayLow ELSE ReplayHigh,
         ts |-> FirstTickTime + 60 * (k - 1)]] : j \in 1..(ScalpReplayLen + 1)}

\* The asks of the book run_backtest makes up, line 67: price * 1.0001.
replay_ask(price) == (price * 10001) \div 10000

\* What pandas_ta reports is a function of the candle history; within the
\* replays of one file the history is given by the number of candles, so an
\* oracle maps that number to the indicator values.
OracleIndicators ==
    {ind \in Indicators : ind.ema9_prev = 1 /\ ind.ema9_last = 1}
Oracles == [min_candles..MaxCandles -> OracleIndicators]
NoOracle == [n \in {} |-> 0]

NoOutcome == [budget |-> Zero, pos |-> NoPos, status |-> None, elapsed |-> 0]

\* The replay driver: which run of the file is under way (0: none), the
\* rows, the oracle, the next row, how the run stands ("running", "done"
\* after the last row, "raised" when an exception ended it), when it
\* started, the outcome of the run before, and how the last row went through
\* lines 72-74 (last: the signal, what the gate said and was asked with, what
\* act did, and budget, position, trade log and outcome window before).
NoSubmit ==
    [signal |-> NoDecision, approved |-> None, asked |-> Zero, done |-> "none",
     budget |-> Zero, pos |-> NoPos, log |-> <<>>, window |-> <<>>]

NoReplay ==
    [run |-> 0, ticks |-> <<>>, oracle |-> NoOracle, i |-> 1,
     status |-> None, start |-> 0, first |-> NoOutcome, last |-> NoSubmit]

\* run_backtest, lines 59-74, for one row of a momentum replay:
\* [m, signal] of strategy.on_price(price).
replay_momentum(m, tick, p, t1, t2) == on_price(m, tick.price, p, t1, t2)

\* run_backtest, lines 66-70, for one row of a scalping replay:
\* [s, bid, ask, signal].
replay_scalping(s, tick, oracle) ==
    LET out == on_tick_update(s, tick.price, tick.ts)
        n == Len(out.s.candles)
    IN  [s |-> out.s,
         bid |-> tick.price,
         ask |-> replay_ask(tick.price),
         signal |-> IF ~out.ret THEN NoDecision
                    ELSE IF n \in DOMAIN oracle
                    THEN generate_signal(out.s, oracle[n])
                    ELSE generate_signal(out.s, CHOOSE ind \in Indicators : TRUE)]

\* What act reports in done; anything else in done means act was not called.
ActOutcomes == {"noop", "cleared", "exit", "enter"}

\* Mutant of replay_submit: the signal goes to act without asking the gate.
replay_submit_unchecked(signal, e, kind, bid, ask, c, r, a) ==
    IF signal = NoDecision
    THEN [budget |-> e.budget, pos |-> e.pos, log |-> e.log, rm |-> r,
          done |-> "none", approved |-> None, asked |-> e.budget]
    ELSE [f \in {"budget", "pos", "log", "rm", "done", "approved", "asked"} |->
            IF f = "approved" THEN None
            ELSE IF f = "asked" THEN e.budget
            ELSE act(e, signal, kind, bid, ask, c, r)[f]]

\* run_backtest, lines 72-74: [budget, pos, log, rm, done, approved, asked].
\* approved is what approve_trade ended with (None: not called), asked the
\* budget it was given.
replay_submit(signal, e, kind, bid, ask, c, r, a) ==
    IF signal = NoDecision
    THEN [budget |-> e.budget, pos |-> e.pos, log |-> e.log, rm |-> r,
          done |-> "none", approved |-> None, asked |-> e.budget]
    ELSE LET res == approve_trade(r, signal, e.budget, a)
             out == act(e, signal, kind, bid, ask, c, res.rm)
         IN  IF res.ret = "True"
             THEN [budget |-> out.budget, pos |-> out.pos, log |-> out.log,
                   rm |-> out.rm, done |-> out.done, approved |-> res.ret,
                   asked |-> e.budget]
             ELSE [budget |-> e.budget, pos |-> e.pos, log |-> e.log,
                   rm |-> res.rm, done |-> res.ret, approved |-> res.ret,
                   asked |-> e.budget]

\* One row of the file goes through the loop body of run_backtest.  The
\* clock is read by MomentumStrategy only; a scalping replay never reads it.
ReplayRow ==
    /\ replay.status = "running"
    /\ replay.i <= Len(replay.ticks)
    /\ \E d1 \in IF strategy_kind = "momentum" THEN ClockDeltas ELSE {0},
          d2 \in IF strategy_kind = "momentum" THEN ReadDeltas ELSE {0} :
         LET tick == replay.ticks[replay.i]
             t1 == now + d1
             t2 == t1 + d2
             mo == replay_momentum(mom, tick, pos, t1, t2)
             so == replay_scalping(scalp, tick, replay.oracle)
             isMom == strategy_kind = "momentum"
             signal == IF isMom THEN mo.ret ELSE so.signal
             bid == IF isMom THEN latest_bid ELSE so.bid
             ask == IF isMom THEN latest_ask ELSE so.ask
             out == replay_submit(signal,
                                  [budget |-> budget, pos |-> pos,
                                   log |-> trade_log],
                                  strategy_kind, bid, ask, cfg, rm, ai)
             raised == out.done \in {"AttributeError", "ZeroDivisionError"}
         IN  /\ mom' = IF isMom THEN mo.m ELSE mom
             /\ scalp' = IF isMom THEN scalp ELSE so.s
             /\ latest_bid' = bid
             /\ latest_ask' = ask
             /\ now' = IF ~isMom THEN now
                       ELSE IF mo.ret.action = "enter_long" THEN t2 ELSE t1
             /\ budget' = out.budget
             /\ pos' = out.pos
             /\ trade_log' = out.log
             /\ rm' = out.rm
             /\ replay' = [replay EXCEPT
                             !.i = replay.i + 1,
                             !.last = [signal |-> signal,
                                       approved |-> out.approved,
                                       asked |-> out.asked, done |-> out.done,
                                       budget |-> budget, pos |-> pos,
                                       log |-> trade_log,
                                       window |-> rm.trade_history],
                             !.status = IF raised THEN "raised"
                                        ELSE IF replay.i = Len(replay.ticks)
                                        THEN "done" ELSE "running"]
    /\ UNCHANGED <<pc, attempts, opened, sub_sends, frames_read, frame, hb_recv,
                   hb_sent, waited, strategy_kind, ai, call, cfg, acts, ecall,
                   mcall, scall>>

\* The program is started again on the same file: new strategy, risk manager
\* and engine (lines 79-86), the same configuration and sentiment.
ReplayAgain ==
    /\ replay.run = 1
    /\ replay.status \in {"done", "raised"}
    /\ replay' = [replay EXCEPT
                    !.run = 2, !.i = 1, !.status = "running", !.start = now,
                    !.last = NoSubmit,
                    !.first = [budget |-> budget, pos |-> pos,
                               status |-> replay.status,
                               elapsed |-> now - replay.start]]
    /\ mom' = MomentumStrategy_init
    /\ scalp' = ScalpingStrategy_init
    /\ latest_bid' = NoPrice
    /\ latest_ask' = NoPrice
    /\ rm' = [RiskManager_init EXCEPT !.starting_budget = cfg.total_budget_usdt]
    /\ budget' = RInt(cfg.total_budget_usdt)
    /\ pos' = NoPos
    /\ UNCHANGED <<pc, attempts, opened, sub_sends, frames_read, frame, hb_recv,
                   hb_sent, waited, strategy_kind, ai, now, call, cfg, trade_log,
                   acts, ecall, mcall, scall>>

\* ------------------------------------------------------- WebSocketManager
NoFrame == [kind |-> "none", id |-> 0, bid |-> NoPrice, ask |-> NoPrice]

\* The inbound frames of the model, by what listen() and _route_data() make
\* of them:
\*   heartbeat  a JSON object with method "public/heartbeat" and an id
\*   ticker     result.channel "ticker.*" with a list of items
\*   book       result.channel "book.*", data[0] with optional bids / asks
\*   book_empty result.channel "book.*" with an empty data list
\*   unknown    a JSON object without result or without result.data
\*   nonobject  valid JSON that is no object (a list, a number)
\*   notjson    text json.loads rejects
Frames ==
    [kind : {"heartbeat"}, id : HeartbeatIds, bid : {NoPrice}, ask : {NoPrice}]
    \cup [kind : {"ticker", "book_empty", "unknown", "nonobject", "notjson"},
          id : {0}, bid : {NoPrice}, ask : {NoPrice}]
    \cup [kind : {"book"}, id : {0}, bid : {NoPrice, 99}, ask : {NoPrice, 101}]

StrategyKinds == {"scalping", "momentum"}

\* Mutant of connect_except: the handler gives up instead of retrying.
connect_except_gives_up == "returned"

\* connect(), line 29: where control goes after an except clause has handled
\* the exception: await asyncio.sleep(5), then the next iteration.
connect_except == "sleep"

\* connect(), line 29: where control goes when the async with block ends
\* without an exception (listen() returned).
connect_fallthrough == "sleep"

\* Mutant of connect_opened: listen() is entered without subscribe().
connect_opened_skips_subscribe == "listen"

\* connect(), lines 23-24: the calls made on a connection that just opened.
connect_opened == "subscribe"

\* subscribe() returned: connect() goes on to listen().
subscribe_done == "listen"

\* Mutant of heartbeat_responses: the response does not echo the id.
heartbeat_responses_fixed_id(f) == <<0>>

\* listen(), lines 51-56: a heartbeat frame is answered and the loop
\* continues with the next frame; the ids of the responses sent.
heartbeat_responses(f) == <<f.id>>

\* ScalpingStrategy.on_order_book_update: [bid, ask].
on_order_book_update(f, bid, ask) ==
    [bid |-> IF f.bid # NoPrice THEN f.bid ELSE bid,
     ask |-> IF f.ask # NoPrice THEN f.ask ELSE ask]

\* _route_data(data) for a JSON object: [ret, bid, ask].
\* The ticker items carry no timestamp, so ScalpingStrategy.on_tick_update
\* returns False for each and no signal is produced; MomentumStrategy has
\* neither on_tick_update nor on_order_book_update.
route_data(f, kind, bid, ask) ==
    IF f.kind = "unknown" THEN [ret |-> "None", bid |-> bid, ask |-> ask]
    ELSE IF f.kind = "ticker"
    THEN IF kind = "momentum"
         THEN [ret |-> "AttributeError", bid |-> bid, ask |-> ask]
         ELSE [ret |-> "None", bid |-> bid, ask |-> ask]
    ELSE IF f.kind = "book_empty"
    THEN [ret |-> "IndexError", bid |-> bid, ask |-> ask]
    ELSE IF kind = "momentum"
    THEN [ret |-> "AttributeError", bid |-> bid, ask |-> ask]
    ELSE LET b == on_order_book_update(f, bid, ask)
         IN  [ret |-> "None", bid |-> b.bid, ask |-> b.ask]

\* _route_data, lines 72-73, on a ScalpingStrategy: the tick handed to
\* on_tick_update has the keys symbol, price and volume, and no timestamp.
route_tick(s, price) == on_tick_update(s, price, NoTime)

\* strategy.on_order_book_update(book) on a ScalpingStrategy, as the replay
\* driver and _route_data call it.
BookUpdate ==
    /\ strategy_kind = "scalping"
    /\ \E f \in {g \in Frames : g.kind = "book"} :
         LET b == on_order_book_update(f, latest_bid, latest_ask)
         IN  /\ latest_bid' = b.bid
             /\ latest_ask' = b.ask
    /\ UNCHANGED <<pc, attempts, opened, sub_sends, frames_read, frame, hb_recv,
                   hb_sent, waited, strategy_kind, ai, now, rm, call>>
    /\ UNCHANGED ext_vars

\* websockets.connect(self._url): the attempt opens a connection or raises.
ConnectAttempt ==
    /\ pc = "connecting"
    /\ attempts' = Min(attempts + 1, MaxAttempts)
    /\ sub_sends' = 0
    /\ frames_read' = 0
    /\ frame' = NoFrame
    /\ hb_recv' = <<>>
    /\ hb_sent' = <<>>
    /\ waited' = 0
    /\ \/ opened' = TRUE  /\ pc' = connect_opened
       \/ opened' = FALSE /\ pc' = connect_except
    /\ UNCHANGED <<strategy_kind, latest_bid, latest_ask, ai, now, rm, call>>
    /\ UNCHANGED ext_vars

\* subscribe(): one ws.send of the subscription request; the send returns,
\* or raises ConnectionClosed when the connection has dropped meanwhile.
Subscribe ==
    /\ pc = "subscribe"
    /\ sub_sends' = sub_sends + 1
    /\ \/ pc' = subscribe_done
       \/ pc' = connect_except
    /\ UNCHANGED <<attempts, opened, frames_read, frame, hb_recv, hb_sent, waited,
                   strategy_kind, latest_bid, latest_ask, ai, now, rm, call>>
    /\ UNCHANGED ext_vars

\* listen(), line 48: the sentiment refresh made before the first frame.
ListenStart ==
    /\ pc = "listen"
    /\ \E reply \in Replies :
         LET res == refresh_sentiment(ai, now, reply)
         IN  /\ ai' = res.ai
             /\ pc' = IF res.ret = "None" THEN "recv" ELSE connect_except
    /\ UNCHANGED <<attempts, opened, sub_sends, frames_read, frame, hb_recv,
                   hb_sent, waited, strategy_kind, latest_bid, latest_ask, now,
                   rm, call>>
    /\ UNCHANGED ext_vars

\* async for message in self.ws: the next frame arrives.
RecvFrame ==
    /\ pc = "recv"
    /\ frames_read < MaxFrames
    /\ \E f \in Frames :
         /\ frame' = f
         /\ hb_recv' = IF f.kind = "heartbeat" THEN Append(hb_recv, f.id)
                       ELSE hb_recv
    /\ frames_read' = frames_read + 1
    /\ pc' = "dispatch"
    /\ UNCHANGED <<attempts, opened, sub_sends, hb_sent, waited, strategy_kind,
                   latest_bid, latest_ask, ai, now, rm, call>>
    /\ UNCHANGED ext_vars

\* async for message in self.ws: the connection closes.  A normal closure
\* ends the iteration and listen() returns; an abnormal one raises
\* ConnectionClosedError.
RecvClosed ==
    /\ pc = "recv"
    /\ \/ pc' = connect_fallthrough
       \/ pc' = connect_except
    /\ frame' = NoFrame
    /\ UNCHANGED <<attempts, opened, sub_sends, frames_read, hb_recv, hb_sent,
                   waited, strategy_kind, latest_bid, latest_ask, ai, now, rm,
                   call>>
    /\ UNCHANGED ext_vars

\* listen(), lines 51-56: the body of the loop for a heartbeat frame.
\* The send returns, or raises ConnectionClosed.
HandleHeartbeat ==
    /\ pc = "dispatch"
    /\ frame.kind = "heartbeat"
    /\ hb_sent' = hb_sent \o heartbeat_responses(frame)
    /\ \/ pc' = "recv"
       \/ pc' = connect_except
    /\ frame' = NoFrame
    /\ UNCHANGED <<attempts, opened, sub_sends, frames_read, hb_recv, waited,
                   strategy_kind, latest_bid, latest_ask, ai, now, rm, call>>
    /\ UNCHANGED ext_vars

\* listen(), line 50 and 52: json.loads raises on text that is not JSON,
\* data.get raises on JSON that is no object.
HandleUnparsable ==
    /\ pc = "dispatch"
    /\ frame.kind \in {"notjson", "nonobject"}
    /\ pc' = connect_except
    /\ frame' = NoFrame
    /\ UNCHANGED <<attempts, opened, sub_sends, frames_read, hb_recv, hb_sent,
                   waited, strategy_kind, latest_bid, latest_ask, ai, now, rm,
                   call>>
    /\ UNCHANGED ext_vars

\* listen(), lines 59-60: the body of the loop for any other JSON object:
\* refresh the sentiment, then route the payload.
HandleData ==
    /\ pc = "dispatch"
    /\ frame.kind \in {"ticker", "book", "book_empty", "unknown"}
    /\ \E reply \in Replies :
         LET res == refresh_sentiment(ai, now, reply)
             out == route_data(frame, strategy_kind, latest_bid, latest_ask)
         IN  /\ ai' = res.ai
             /\ IF res.ret # "None"
                THEN /\ pc' = connect_except
                     /\ UNCHANGED <<latest_bid, latest_ask>>
                ELSE /\ pc' = IF out.ret = "None" THEN "recv" ELSE connect_except
                     /\ latest_bid' = out.bid
                     /\ latest_ask' = out.ask
             /\ \E price \in ScalpPrices :
                  scalp' = IF /\ res.ret = "None"
                              /\ frame.kind = "ticker"
                              /\ strategy_kind = "scalping"
                           THEN route_tick(scalp, price).s
                           ELSE scalp
    /\ frame' = NoFrame
    /\ UNCHANGED <<attempts, opened, sub_sends, frames_read, hb_recv, hb_sent,
                   waited, strategy_kind, now, rm, call>>
    /\ UNCHANGED <<engine_vars, mom, mcall, scall, replay>>

\* connect(), line 29: await asyncio.sleep(5), then the next iteration of
\* while True.
Sleep ==
    /\ pc = "sleep"
    /\ waited' = reconnect_delay
    /\ pc' = "connecting"
    /\ UNCHANGED <<attempts, opened, sub_sends, frames_read, frame, hb_recv,
                   hb_sent, strategy_kind, latest_bid, latest_ask, ai, now, rm,
                   call>>
    /\ UNCHANGED ext_vars

\* ------------------------------------------------------- specifications
\* The state after main() has constructed the components: the strategy the
\* configuration names, and an analyzer whose client could or could not be
\* constructed.
Init ==
    /\ pc = "connecting"
    /\ attempts = 0
    /\ opened = FALSE
    /\ sub_sends = 0
    /\ frames_read = 0
    /\ frame = NoFrame
    /\ hb_recv = <<>>
    /\ hb_sent = <<>>
    /\ waited = 0
    /\ strategy_kind \in StrategyKinds
    /\ latest_bid = NoPrice
    /\ latest_ask = NoPrice
    /\ ai \in {AI_Analyzer_init(TRUE), AI_Analyzer_init(FALSE)}
    /\ now = StartTime
    /\ rm = RiskManager_init
    /\ call = NoCall
    /\ cfg = DefaultConfig
    /\ budget = RInt(cfg.total_budget_usdt)
    /\ pos = NoPos
    /\ trade_log = <<>>
    /\ acts = 0
    /\ ecall = NoEngineCall
    /\ mom = MomentumStrategy_init
    /\ mcall = NoMomCall
    /\ scalp = ScalpingStrategy_init
    /\ scall = NoScalpCall
    /\ replay = NoReplay

\* The live path: connect() driven by the remote end and the clock.
NextStream ==
    \/ ConnectAttempt
    \/ Subscribe
    \/ ListenStart
    \/ RecvFrame
    \/ RecvClosed
    \/ HandleHeartbeat
    \/ HandleUnparsable
    \/ HandleData
    \/ Sleep
    \/ ClockAdvance

\* The reconnect delay ends, a connection attempt ends (it opens or raises),
\* and every call connect() awaits returns or raises: asyncio resumes the
\* coroutine.  Frames and closures come from the remote end and are not
\* forced.
SpecStream ==
    /\ Init
    /\ [][NextStream]_vars
    /\ WF_vars(Sleep)
    /\ WF_vars(ConnectAttempt)
    /\ WF_vars(Subscribe)
    /\ WF_vars(ListenStart)
    /\ WF_vars(HandleHeartbeat)
    /\ WF_vars(HandleUnparsable)
    /\ WF_vars(HandleData)

\* The risk gate driven through its public methods.
NextRisk ==
    \/ ApproveTradeCall
    \/ UpdateTradeHistoryCall
    \/ RefreshSentimentCall
    \/ ClockAdvance

SpecRisk == Init /\ [][NextRisk]_vars

\* ------------------------------------------------------------------ claims
Connected == {"subscribe", "listen", "recv", "dispatch"}

\* C1: connect() never returns: from every position it is in the reconnect
\* loop; whenever a connection ends (closed normally or abnormally, or an
\* exception raised while it was open) or an attempt to open one fails, the
\* coroutine goes to the fixed delay, the delay ends in a new connection
\* attempt made after exactly reconnect_delay seconds, and no count of
\* earlier attempts stops it.
C1_ReconnectsForever ==
    /\ [](pc \in Connected \cup {"connecting", "sleep"})
    /\ [][(pc \in Connected \cup {"connecting"} /\ pc' # pc /\ pc' \notin Connected)
              => pc' = "sleep"]_vars
    /\ [](pc = "connecting" /\ attempts > 0 => waited = reconnect_delay)
    /\ (pc = "sleep" ~> pc = "connecting")
    /\ (pc = "connecting" ~> pc \in {"subscribe", "sleep"})

\* A new attempt is due after the delay, the attempt counter has saturated,
\* and the connection that ended had delivered frames.
C1_Witness ==
    /\ pc = "connecting"
    /\ attempts = MaxAttempts
    /\ waited = reconnect_delay
    /\ opened
    /\ frames_read > 0

\* C2: subscribe() issues exactly one subscription request on every
\* connection that opened, before listen() reads any frame from it, and none
\* for an attempt that failed to open.
C2_OneSubscriptionPerConnection ==
    /\ sub_sends <= 1
    /\ (pc = "subscribe" => opened /\ sub_sends = 0 /\ frames_read = 0)
    /\ (pc \in {"listen", "recv", "dispatch"} => opened /\ sub_sends = 1)
    /\ (frames_read > 0 => sub_sends = 1)
    /\ (attempts > 0 /\ pc \in {"sleep", "connecting"}
            => sub_sends = IF opened THEN 1 ELSE 0)

\* A reconnection has opened a second connection and frames were read on it.
C2_Witness ==
    /\ attempts >= 2
    /\ opened
    /\ frames_read >= 2
    /\ sub_sends = 1

\* C3: every heartbeat frame read is answered by exactly one response with
\* the same id before the next frame is taken from the connection: whenever
\* listen() is not inside the handling of a heartbeat, the responses sent
\* are the heartbeats read, in order; inside it, exactly the heartbeat being
\* handled is still unanswered.
C3_HeartbeatAnswered ==
    IF pc = "dispatch" /\ frame.kind = "heartbeat"
    THEN hb_recv = Append(hb_sent, frame.id)
    ELSE hb_sent = hb_recv

\* A heartbeat was answered with its id and the next frame, a heartbeat with
\* another id, is being handled.
C3_Witness ==
    /\ pc = "dispatch"
    /\ frame.kind = "heartbeat"
    /\ Len(hb_sent) = 1
    /\ hb_sent[1] # frame.id
    /\ hb_recv = <<hb_sent[1], frame.id>>

\* The drawdown limit B * (1 - d): current_budget is at or below it.
AtOrBelowDrawdownLimit(b, sb) ==
    b * daily_drawdown_den <= sb * (daily_drawdown_den - daily_drawdown_num)

VetoCase(c) == c.signal.action = "enter_long" /\ c.sentiment = "Bearish"

\* C4: an approve_trade call for an enter_long signal made while the cached
\* sentiment is Bearish returns False, whatever the budget and the breaker
\* state are.
C4_BearishVetoRejects ==
    (call.op = "approve_trade" /\ VetoCase(call)) => call.ret = "False"

\* C5: for an exit signal the outcome of approve_trade does not depend on
\* the sentiment label: from the RiskState and budget of the call, every
\* label gives the result and the RiskState the call gave.
C5_ExitIgnoresSentiment ==
    (call.op = "approve_trade" /\ call.signal.action = "exit")
        => \A l \in Labels :
               approve_trade(call.pre, call.signal, call.budget,
                             [ai EXCEPT !.sentiment = l])
                   = [ret |-> call.ret, rm |-> rm]

\* An exit signal was checked while the sentiment was Bearish, with a budget
\* below the drawdown limit.
C5_Witness ==
    /\ call.op = "approve_trade"
    /\ call.signal.action = "exit"
    /\ call.sentiment = "Bearish"
    /\ call.budget < total_budget_usdt
    /\ Len(call.pre.trade_history) = throttle_window

\* C6: an approve_trade call with current_budget <= B * (1 - d) that the
\* sentiment veto does not reject returns False and leaves the
\* drawdown-paused flag set (the analyzer holding one of its three labels).
C6_DrawdownRejectsAndLatches ==
    (/\ call.op = "approve_trade"
     /\ call.sentiment \in Labels
     /\ ~VetoCase(call)
     /\ AtOrBelowDrawdownLimit(call.budget, call.pre.starting_budget))
        => call.ret = "False" /\ rm.trading_paused_drawdown

\* C9: an approve_trade call made with a full outcome window whose win rate
\* is below the threshold returns False and leaves the throttle-paused flag
\* set (the analyzer holding one of its three labels).
C9_ThrottleTrips ==
    (/\ call.op = "approve_trade"
     /\ call.sentiment \in Labels
     /\ Len(call.pre.trade_history) = throttle_window
     /\ WinRateBelow(call.pre.trade_history))
        => call.ret = "False" /\ rm.trading_paused_throttle

\* Neither breaker flag is ever set and no approve_trade call returns: every
\* call ends at line 17 or 18, before the checks.  The cases of C7, C8 and
\* C10 (a flag that has been set) are therefore in no reachable state.
BreakersNeverTrip ==
    /\ ~rm.trading_paused_drawdown
    /\ ~rm.trading_paused_throttle
    /\ (call.op = "approve_trade" => call.ret = "AttributeError")

\* C12: every approve_trade call ends by returning a boolean, never in an
\* error, whatever the signal, budget, sentiment label and RiskState are.
C12_ApproveReturnsBoolean ==
    (call.op = "approve_trade" /\ call.sentiment \in Labels)
        => call.ret \in {"True", "False"}

\* C20: a malformed or unrecognized inbound frame is skipped: handling it
\* keeps the connection (the loop goes on to the next frame, no reconnect)
\* and changes no strategy, risk or execution state.
C20_MalformedFrameSkipped ==
    [][(/\ pc = "dispatch"
        /\ frame.kind \in {"notjson", "nonobject", "unknown"}
        /\ pc' # pc)
           => /\ pc' = "recv"
              /\ UNCHANGED <<latest_bid, latest_ask, rm, call, attempts>>]_vars

\* The execution engine driven through its methods, built from any of the
\* configurations, with either strategy class.
InitEngine ==
    /\ pc = "connecting"
    /\ attempts = 0
    /\ opened = FALSE
    /\ sub_sends = 0
    /\ frames_read = 0
    /\ frame = NoFrame
    /\ hb_recv = <<>>
    /\ hb_sent = <<>>
    /\ waited = 0
    /\ strategy_kind \in StrategyKinds
    /\ latest_bid = NoPrice
    /\ latest_ask = NoPrice
    /\ ai = AI_Analyzer_init(TRUE)
    /\ now = StartTime
    /\ cfg \in Configs
    /\ rm = [RiskManager_init EXCEPT !.starting_budget = cfg.total_budget_usdt]
    /\ call = NoCall
    /\ budget = RInt(cfg.total_budget_usdt)
    /\ pos = NoPos
    /\ trade_log = <<>>
    /\ acts = 0
    /\ ecall = NoEngineCall
    /\ mom = MomentumStrategy_init
    /\ mcall = NoMomCall
    /\ scalp = ScalpingStrategy_init
    /\ scall = NoScalpCall
    /\ replay = NoReplay

NextEngine ==
    \/ ActCall
    \/ SubmitSignal
    \/ OrderSizeCall
    \/ BookUpdate

SpecEngine == InitEngine /\ [][NextEngine]_vars

\* ------------------------------------------------- claims on the engine
\* (budget * risk_per_trade_pct) / price at the call recorded in ecall.
SizeQuotient ==
    RDiv(RMul(ecall.budget, cfg.risk_per_trade_pct), RInt(ecall.decision.price))

\* C13, as stated: _order_size(price) returns 0 for a missing price and for
\* every price <= 0, and for every price > 0 exactly
\* (budget * risk_per_trade_pct) / price, for every budget value.
C13_OrderSizeExactQuotient ==
    ecall.op = "_order_size"
        => IF ecall.decision.price = NoPrice \/ ecall.decision.price <= 0
           THEN ecall.size = Zero
           ELSE ecall.size = SizeQuotient

\* C13, amended: _order_size(price) returns 0 for a missing price and for
\* every price <= 0; for every price > 0 it returns
\* (budget * risk_per_trade_pct) / price when that quotient is >= 0 and 0
\* when it is negative.
C13_OrderSizeFlooredQuotient ==
    ecall.op = "_order_size"
        => IF ecall.decision.price = NoPrice \/ ecall.decision.price <= 0
           THEN ecall.size = Zero
           ELSE IF RLt(SizeQuotient, Zero) THEN ecall.size = Zero
           ELSE ecall.size = SizeQuotient

\* A size was asked at a positive price with a positive budget, and the
\* quotient came back.
C13_Witness ==
    /\ ecall.op = "_order_size"
    /\ ecall.decision.price > 0
    /\ RLt(Zero, ecall.budget)
    /\ RLt(Zero, ecall.size)
    /\ ecall.size = SizeQuotient

\* The setting of the end-to-end scenario, reached through the pipeline.
C14_Scenario ==
    /\ ecall.op = "pipeline"
    /\ cfg.total_budget_usdt = 1000
    /\ cfg.risk_per_trade_pct = Frac(1, 100)
    /\ ai.sentiment = "Neutral"
    /\ ~rm.trading_paused_drawdown
    /\ ~rm.trading_paused_throttle

C14_EntryCase ==
    /\ C14_Scenario
    /\ ecall.decision.action = "enter_long"
    /\ ecall.budget = RInt(1000)
    /\ ecall.pos = NoPos
    /\ fill_price(strategy_kind, latest_bid, ecall.decision) = 100

C14_ExitCase ==
    /\ C14_Scenario
    /\ ecall.decision.action = "exit"
    /\ ecall.budget = RInt(1000)
    /\ ecall.pos = [side |-> "LONG", qty |-> Frac(1, 10), entry |-> 100]
    /\ fill_price(strategy_kind, latest_ask, ecall.decision) = 110

C14_ExitResult ==
    /\ budget = RInt(1001)
    /\ pos = NoPos
    /\ Len(trade_log) = 2
    /\ trade_log[1].action = "ENTER"
    /\ trade_log[2].action = "EXIT"
    /\ trade_log[2].pnl = RInt(1)

\* C14: from budget 1000 with risk 0.01, Neutral sentiment and no breaker
\* tripped, an enter_long at price 100 sent through approve_trade and act
\* opens a position of qty 0.1 at entry 100; a following exit with fill
\* price 110 leaves budget 1001, no position, and a trade log of exactly
\* one ENTER followed by one EXIT record with pnl 1.
C14_EndToEnd ==
    /\ C14_EntryCase
         => pos = [side |-> "LONG", qty |-> Frac(1, 10), entry |-> 100]
    /\ C14_ExitCase => C14_ExitResult

\* C15: at most one position is open at any time: an open position has
\* side LONG, quantity > 0 and entry price > 0, and it changes only by being
\* closed by an exit; an enter_long acted on meanwhile leaves it as it was.
C15_OnePosition ==
    /\ [](pos # NoPos
            => /\ pos.side = "LONG"
               /\ RLt(Zero, pos.qty)
               /\ pos.entry > 0)
    /\ [][(pos # NoPos /\ pos' # pos)
            => /\ pos' = NoPos
               /\ ecall'.decision.action = "exit"]_vars

\* An enter_long at another fillable price was acted on while a position
\* was open, and the position is as it was.
C15_Witness ==
    /\ ecall.op = "act"
    /\ ecall.decision.action = "enter_long"
    /\ ecall.pos # NoPos
    /\ fill_price(strategy_kind, latest_bid, ecall.decision) > 0
    /\ fill_price(strategy_kind, latest_bid, ecall.decision) # ecall.pos.entry
    /\ pos = ecall.pos

\* C16: the budget changes only in a call of act that executes an exit on
\* an open position; entries, signals stopped before act, order-book
\* updates, size queries and no-op calls leave it unchanged.
C16_BudgetChangesOnlyOnExit ==
    [][budget' # budget
         => /\ pos # NoPos
            /\ pos' = NoPos
            /\ ecall'.decision.action = "exit"
            /\ ecall'.done = "exit"]_vars

\* An entry was executed and left the budget as it was.
C16_Witness ==
    /\ ecall.op = "act"
    /\ ecall.done = "enter"
    /\ pos # NoPos
    /\ budget = ecall.budget
    /\ RLt(Zero, budget)

\* MomentumStrategy driven through on_price, its signals acted on or not.
NextMomentum ==
    \/ OnPriceCall
    \/ ActOnSignal

InitMomentum ==
    /\ Init
    /\ strategy_kind = "momentum"

SpecMomentum == InitMomentum /\ [][NextMomentum]_vars

\* MomentumStrategy.on_price called again and again while a position is
\* held, under configurations that differ in stop_loss_pct.
NextHeld == OnPriceHeld

InitHeld ==
    /\ pc = "connecting"
    /\ attempts = 0
    /\ opened = FALSE
    /\ sub_sends = 0
    /\ frames_read = 0
    /\ frame = NoFrame
    /\ hb_recv = <<>>
    /\ hb_sent = <<>>
    /\ waited = 0
    /\ strategy_kind = "momentum"
    /\ latest_bid = NoPrice
    /\ latest_ask = NoPrice
    /\ ai = AI_Analyzer_init(TRUE)
    /\ now = StartTime
    /\ rm = RiskManager_init
    /\ call = NoCall
    /\ cfg \in HeldConfigs
    /\ budget = RInt(cfg.total_budget_usdt)
    /\ \E entry \in HeldEntries :
         pos = [side |-> "LONG",
                qty |-> order_size(budget, cfg.risk_per_trade_pct, entry),
                entry |-> entry]
    /\ trade_log = <<>>
    /\ acts = 0
    /\ ecall = NoEngineCall
    /\ mom = MomentumStrategy_init
    /\ mcall = NoMomCall
    /\ scalp = ScalpingStrategy_init
    /\ scall = NoScalpCall
    /\ replay = NoReplay

SpecHeld == InitHeld /\ [][NextHeld]_vars

\* ScalpingStrategy.on_tick_update fed a tick a minute until the candle
\* history has been full for some minutes.
NextCandles == OnMinuteTick

InitCandles ==
    /\ Init
    /\ strategy_kind = "scalping"

SpecCandles == InitCandles /\ [][NextCandles]_vars

\* ScalpingStrategy driven through its methods over an ordered tick stream.
NextScalping ==
    \/ OnTickUpdateCall
    \/ GenerateSignalCall

InitScalping ==
    /\ Init
    /\ strategy_kind = "scalping"

SpecScalping == InitScalping /\ [][NextScalping]_vars

\* Two runs of backtest.py over the same file, one after the other.
InitReplay ==
    /\ pc = "connecting"
    /\ attempts = 0
    /\ opened = FALSE
    /\ sub_sends = 0
    /\ frames_read = 0
    /\ frame = NoFrame
    /\ hb_recv = <<>>
    /\ hb_sent = <<>>
    /\ waited = 0
    /\ strategy_kind \in StrategyKinds
    /\ latest_bid = NoPrice
    /\ latest_ask = NoPrice
    /\ ai \in {MockAIAnalyzer(label) : label \in Labels}
    /\ now = StartTime
    /\ rm = RiskManager_init
    /\ call = NoCall
    /\ cfg = DefaultConfig
    /\ budget = RInt(cfg.total_budget_usdt)
    /\ pos = NoPos
    /\ trade_log = <<>>
    /\ acts = 0
    /\ ecall = NoEngineCall
    /\ mom = MomentumStrategy_init
    /\ mcall = NoMomCall
    /\ scalp = ScalpingStrategy_init
    /\ scall = NoScalpCall
    /\ \E ticks \in IF strategy_kind = "momentum" THEN MomReplayTicks
                    ELSE ScalpReplayTicks,
          oracle \in IF strategy_kind = "momentum" THEN {NoOracle} ELSE Oracles :
         replay = [run |-> 1, ticks |-> ticks, oracle |-> oracle, i |-> 1,
                   status |-> "running", start |-> StartTime,
                   first |-> NoOutcome, last |-> NoSubmit]

NextReplay ==
    \/ ReplayRow
    \/ ReplayAgain

SpecReplay == InitReplay /\ [][NextReplay]_vars

\* ----------------------------------------------- claims on the strategies
\* C18: any two enter_long signals of on_price are at least cooldown_sec
\* apart: a signal is emitted only when the clock reading of _cooldown is at
\* least cooldown_sec after last_signal_ts, last_signal_ts becomes the
\* emission time, and the emission time is at least cooldown_sec after the
\* emission time of the entry signal before it.
C18_CooldownBetweenEntries ==
    mcall.t_emit # NoTime
        => /\ mcall.ret.action \in {"enter_long", "none"}
           /\ mcall.t_check - mcall.pre_ts >= cooldown_sec
           /\ mom.last_signal_ts = mcall.t_emit
           /\ mcall.prev_emit # NoTime
                => mcall.t_emit - mcall.prev_emit >= cooldown_sec

\* A second entry signal was emitted.
C18_Witness ==
    /\ mcall.ret.action = "enter_long"
    /\ mcall.t_emit # NoTime
    /\ mcall.prev_emit # NoTime

\* C19: generate_signal returns no signal whenever fewer than 22 finalized
\* candles are in the history, whatever the candles and the indicator
\* values are.
C19_NoSignalBelow22Candles ==
    (scall.op = "generate_signal" /\ scall.len < 22) => scall.ret = NoDecision

\* generate_signal was asked with 21 candles, after a price change, and
\* returned nothing.
C19_Witness ==
    /\ scall.op = "generate_signal"
    /\ scall.len = 21
    /\ scall.changes > 0
    /\ scall.ret = NoDecision

C21_FailedRefreshKeepsLabel ==
    (/\ call.op = "refresh_sentiment"
     /\ call.sentiment \in Labels
     /\ call.fetched
     /\ call.reply = "<error>")
        => /\ ai.sentiment = call.sentiment
           /\ call.ret = "None"

\* ------------------------------------------------ claims on the pipeline
\* C22: act is called only with a signal for which approve_trade, asked just
\* before with the engine's current budget, returned true; a signal the gate
\* did not approve never reaches act.
C22_ActOnlyAfterApproval ==
    /\ replay.last.done \in ActOutcomes
         => /\ replay.last.approved = "True"
            /\ replay.last.asked = replay.last.budget
    /\ (replay.last.signal # NoDecision /\ replay.last.approved # "True")
         => /\ replay.last.done \notin ActOutcomes
            /\ budget = replay.last.budget
            /\ pos = replay.last.pos
            /\ trade_log = replay.last.log

\* A signal came up in a replay, the gate did not approve it, and act was
\* not called.
C22_Witness ==
    /\ replay.status = "raised"
    /\ replay.last.signal.action = "enter_long"
    /\ replay.last.approved # "True"
    /\ replay.last.asked = budget
    /\ replay.last.done \notin ActOutcomes

\* C23: the checks of approve_trade run in the order veto, drawdown, throttle
\* and the first failing one rejects and ends the call: an enter_long under a
\* Bearish label is rejected with both breaker flags as they were even when
\* the budget is below the drawdown limit, and a call the veto lets through
\* with a budget below the limit is rejected with the throttle flag as it was
\* even when the window is full with a win rate below the threshold.
C23_OrderedShortCircuit ==
    /\ (/\ call.op = "approve_trade"
         /\ VetoCase(call)
         /\ DrawdownHit(RInt(call.budget), call.pre.starting_budget))
            => /\ call.ret = "False"
               /\ rm = call.pre
    /\ (/\ call.op = "approve_trade"
         /\ call.sentiment \in Labels
         /\ ~VetoCase(call)
         /\ DrawdownHit(RInt(call.budget), call.pre.starting_budget)
         /\ Len(call.pre.trade_history) = throttle_window
         /\ WinRateBelow(call.pre.trade_history))
            => /\ call.ret = "False"
               /\ rm.trading_paused_throttle = call.pre.trading_paused_throttle

\* C24: an approve_trade call made while fewer than throttle_window outcomes
\* are recorded leaves the throttle flag clear, and when it returns False it
\* is the veto or the drawdown check that rejected.
C24_NoThrottleTripBeforeFull ==
    (/\ call.op = "approve_trade"
     /\ Len(call.pre.trade_history) < throttle_window)
        => /\ ~rm.trading_paused_throttle
           /\ call.ret = "False"
                => \/ VetoCase(call)
                   \/ DrawdownHit(RInt(call.budget), call.pre.starting_budget)

\* approve_trade was called with a window that is not full and holds only
\* losses, for a signal neither the veto nor the drawdown check applies to.
C24_Witness ==
    /\ call.op = "approve_trade"
    /\ call.sentiment = "Bullish"
    /\ call.budget = total_budget_usdt
    /\ Len(call.pre.trade_history) = throttle_window - 1
    /\ Sum(call.pre.trade_history) = 0
    /\ rm.trade_history = call.pre.trade_history

\* The window after one more outcome: the outcome is 1 exactly when pnl > 0,
\* it goes to the end, and the oldest entry leaves when the length would
\* pass throttle_window.
WindowAfter(h, pnl) ==
    LET a == h \o << IF pnl > 0 THEN 1 ELSE 0 >>
    IN  IF Len(a) > throttle_window
        THEN SubSeq(a, Len(a) - throttle_window + 1, Len(a))
        ELSE a

\* One call as the outcome window sees it.
C25_WindowStep ==
    IF call'.op = "update_trade_history"
    THEN /\ call'.pre = rm
         /\ rm'.trade_history = WindowAfter(rm.trade_history, call'.pnl)
    ELSE rm'.trade_history = rm.trade_history

\* C25: the outcome window is never longer than throttle_window; every
\* update_trade_history call takes it to the window with that call's outcome
\* appended and the oldest evicted (so it holds the latest min(n,
\* throttle_window) outcomes in call order, a pnl of 0 counting as 0); no
\* other call, approve_trade included, changes it.
C25_OutcomeWindow ==
    /\ [](Len(rm.trade_history) <= throttle_window)
    /\ [][C25_WindowStep]_<<rm, call>>

\* A full window took one more outcome: a win after a loss pushed the
\* oldest entry out.
C25_Witness ==
    /\ call.op = "update_trade_history"
    /\ call.pnl > 0
    /\ Len(call.pre.trade_history) = throttle_window
    /\ call.pre.trade_history[throttle_window] = 0
    /\ rm.trade_history = Tail(call.pre.trade_history) \o <<1>>
    /\ rm.trade_history # call.pre.trade_history

\* The step is one call of act with the given action.
ActStep(action) ==
    /\ acts' = acts + 1
    /\ ecall'.op = "act"
    /\ ecall'.decision.action = action

\* The exit price act reads at lines 30-31 for the decision of the step.
C26_ExitPrice == fill_price(strategy_kind, latest_ask, ecall'.decision)

C26_Pnl == RMul(RInt(C26_ExitPrice - pos.entry), pos.qty)

C26_ExitStep ==
    (/\ ActStep("exit")
     /\ pos # NoPos
     /\ pos.entry > 0
     /\ RLt(Zero, pos.qty)
     /\ C26_ExitPrice # NoPrice)
        => /\ budget' = RAdd(budget, C26_Pnl)
           /\ rm'.trade_history = WindowAfter(rm.trade_history, C26_Pnl.n)
           /\ rm'.trade_history # rm.trade_history
                 \/ Len(rm.trade_history) = throttle_window
           /\ Len(trade_log') = Len(trade_log) + 1
           /\ SubSeq(trade_log', 1, Len(trade_log)) = trade_log
           /\ trade_log'[Len(trade_log')].action = "EXIT"
           /\ trade_log'[Len(trade_log')].price = C26_ExitPrice
           /\ trade_log'[Len(trade_log')].qty = pos.qty
           /\ trade_log'[Len(trade_log')].pnl = C26_Pnl
           /\ pos' = NoPos

\* C26: an exit acted on with an open position (entry > 0, qty > 0) and an
\* exit price at hand adds exactly (exit_price - entry) * qty to the budget,
\* puts the outcome of that pnl into the risk manager's window once, appends
\* one EXIT trade record with the exit price, the qty and the pnl, and leaves
\* no open position.
C26_ExitSettles == [][C26_ExitStep]_vars

\* An exit closed a position at a price other than the entry: the budget
\* moved and the log ends with the EXIT record.
C26_Witness ==
    /\ ecall.op = "act"
    /\ ecall.done = "exit"
    /\ ecall.pos # NoPos
    /\ budget # ecall.budget
    /\ pos = NoPos
    /\ Len(trade_log) >= 2
    /\ trade_log[Len(trade_log)].action = "EXIT"
    /\ Len(rm.trade_history) >= 1

\* The three cases in which act has nothing to do.
C27_NoOpCase ==
    \/ ActStep("exit") /\ pos = NoPos
    \/ ActStep("enter_long") /\ pos # NoPos
    \/ /\ ActStep("enter_long")
       /\ pos = NoPos
       /\ fill_price(strategy_kind, latest_bid, ecall'.decision) # NoPrice
       /\ RLe(order_size(budget, cfg.risk_per_trade_pct,
                         fill_price(strategy_kind, latest_bid, ecall'.decision)),
              Zero)

C27_NoOpStep ==
    C27_NoOpCase
        => /\ budget' = budget
           /\ pos' = pos
           /\ trade_log' = trade_log
           /\ rm'.trade_history = rm.trade_history

\* C27: an exit with no open position, an enter_long with a position open
\* and an enter_long whose computed quantity is <= 0 each leave the budget,
\* the position, the trade log and the risk outcome window as they were.
C27_NoOpsChangeNothing == [][C27_NoOpStep]_vars

\* An enter_long at another price came while a position was open.
C27_Witness ==
    /\ ecall.op = "act"
    /\ ecall.decision.action = "enter_long"
    /\ ecall.decision.price = 110
    /\ ecall.pos # NoPos
    /\ ecall.pos.entry = 100
    /\ ecall.done = "noop"
    /\ pos = ecall.pos
    /\ Len(trade_log) = 1

\* The price the fill is to be made at: the book price the strategy has
\* observed, or the price the signal carries when the strategy tracks no
\* book price or has observed none yet.
C28_FillAt(book_price, decision) ==
    IF strategy_kind = "scalping" /\ book_price # NoPrice
    THEN book_price ELSE decision.price

C28_EntryFills ==
    LET px == C28_FillAt(ecall.bid, ecall.decision)
    IN  (/\ ecall.op = "act"
         /\ ecall.decision.action = "enter_long"
         /\ ecall.pos = NoPos
         /\ px > 0
         /\ RLt(Zero, RMul(ecall.budget, cfg.risk_per_trade_pct)))
            => /\ pos # NoPos
               /\ pos.entry = px
               /\ trade_log # <<>>
               /\ trade_log[Len(trade_log)].action = "ENTER"
               /\ trade_log[Len(trade_log)].price = px

C28_ExitFills ==
    LET px == C28_FillAt(ecall.ask, ecall.decision)
    IN  (/\ ecall.op = "act"
         /\ ecall.decision.action = "exit"
         /\ ecall.pos # NoPos
         /\ px # NoPrice)
            => /\ pos = NoPos
               /\ trade_log # <<>>
               /\ trade_log[Len(trade_log)].action = "EXIT"
               /\ trade_log[Len(trade_log)].price = px

\* C28: act fills an entry at the latest observed bid and an exit at the
\* latest observed ask, and at the price the signal carries when no book
\* price has been observed, also with a strategy that tracks bid and ask
\* and has not seen an order-book update yet.
C28_FillsAtBookOrSignalPrice ==
    /\ C28_EntryFills
    /\ C28_ExitFills

\* The last engine call was an act that executed an entry.
C29_EntryExecuted ==
    /\ ecall.op = "act"
    /\ ecall.done = "enter"
    /\ trade_log # <<>>

C29_Reason == trade_log[Len(trade_log)].reason

\* qty * price of the entry exceeds the large-order threshold.
C29_LargeOrder ==
    RLt(RInt(large_order_threshold_usdt), RMul(pos.qty, RInt(pos.entry)))

\* The position an executed entry opens: the order size at the fill price,
\* whatever the route.
C29_PositionOpened ==
    LET px == fill_price(strategy_kind, ecall.bid, ecall.decision)
    IN  pos = [side |-> "LONG",
               qty |-> order_size(ecall.budget, cfg.risk_per_trade_pct, px),
               entry |-> px]

\* C29, as stated: an executed entry is recorded with reason twap_entry
\* exactly when its notional exceeds the large-order threshold or the mode
\* is twap, and smart_limit_entry otherwise, in every execution mode; the
\* position opened is the same for both routes.
C29_RouteByThresholdInEveryMode ==
    C29_EntryExecuted
        => /\ C29_Reason \in {"twap_entry", "smart_limit_entry"}
           /\ C29_Reason = "twap_entry"
                 <=> (C29_LargeOrder \/ cfg.execution_mode = "twap")
           /\ C29_PositionOpened

\* C29, amended: the threshold selects the route only in mode auto; an
\* executed entry is recorded with reason twap_entry exactly when the mode
\* is twap, or the mode is auto and the notional exceeds the threshold, and
\* with smart_limit_entry otherwise; the position opened is the same for
\* both routes.
C29_RouteByThresholdInAutoMode ==
    C29_EntryExecuted
        => /\ C29_Reason \in {"twap_entry", "smart_limit_entry"}
           /\ C29_Reason = "twap_entry"
                 <=> \/ cfg.execution_mode = "twap"
                     \/ cfg.execution_mode = "auto" /\ C29_LargeOrder
           /\ C29_PositionOpened

\* An entry above the threshold was executed in mode limit and recorded as
\* smart_limit_entry.
C29_Witness ==
    /\ C29_EntryExecuted
    /\ cfg.execution_mode = "limit"
    /\ C29_LargeOrder
    /\ C29_Reason = "smart_limit_entry"
    /\ pos.entry = ecall.decision.price

\* The routing of one ticker or order-book payload, the sentiment refresh
\* before it having gone through.
C30_RouteStep ==
    (/\ pc = "dispatch"
     /\ pc' # pc
     /\ frame.kind \in {"ticker", "book"}
     /\ ai.sentiment # Unset)
        => /\ pc' = "recv"
           /\ (frame.kind = "ticker" /\ strategy_kind = "scalping")
                => scalp'.current_candle # NoCandle
           /\ (frame.kind = "book" /\ frame.bid # NoPrice)
                => latest_bid' = frame.bid
           /\ (frame.kind = "book" /\ frame.ask # NoPrice)
                => latest_ask' = frame.ask

\* C30: on the live path, with either strategy, a ticker payload is handed
\* to the strategy and updates its indicator or candle state, an order-book
\* payload updates the latest bid and ask, and neither raises an error: the
\* loop goes on to the next frame.
C30_LivePayloadsReachStrategy == [][C30_RouteStep]_vars

\* C31: on_price returns one decision per call, and an enter_long only when
\* no position is open and at least zscore_len prices are in the history
\* (the price of the call included); the signal carries the price of the
\* call.  A signal on_price returned stays in mcall.ret until act takes it,
\* and nothing but act changes the position.
C31_EntryOnlyWhenFlat ==
    /\ mcall.ret \in Decisions \cup [action : Actions, price : MomPrices,
                                      reason : {"", "tp", "sl"}]
    /\ mcall.ret.action = "enter_long"
         => /\ pos = NoPos
            /\ Len(mom.prices) >= zscore_len
            /\ mcall.ret.price = mcall.px

\* An entry signal came with exactly zscore_len prices in the history.
C31_Witness ==
    /\ mcall.ret.action = "enter_long"
    /\ pos = NoPos
    /\ Len(mom.prices) = zscore_len
    /\ mcall.calls = zscore_len

\* entry * (1 + pct) of the position held, as an exact fraction.
HeldThreshold(pct) == RMul(RInt(pos.entry), RAdd(RInt(1), pct))

HeldCall == mcall.calls > 0 /\ mcall.px > 0 /\ pos # NoPos

\* C32: with a position open, on_price(px) returns exit with reason tp when
\* px >= entry * (1 + take_profit_pct), otherwise exit with reason sl when
\* px <= entry * (1 + stop_loss_pct), otherwise no signal: where both tests
\* hold the result is tp.
C32_ExitTpBeforeSl ==
    HeldCall
        => mcall.ret =
             IF RLe(HeldThreshold(cfg.take_profit_pct), RInt(mcall.px))
             THEN [action |-> "exit", price |-> mcall.px, reason |-> "tp"]
             ELSE IF RLe(RInt(mcall.px), HeldThreshold(cfg.stop_loss_pct))
             THEN [action |-> "exit", price |-> mcall.px, reason |-> "sl"]
             ELSE NoDecision

\* A price at which both tests hold (stop_loss_pct above take_profit_pct)
\* gave a tp exit.
C32_Witness ==
    /\ HeldCall
    /\ RLe(HeldThreshold(cfg.take_profit_pct), RInt(mcall.px))
    /\ RLe(RInt(mcall.px), HeldThreshold(cfg.stop_loss_pct))
    /\ mcall.ret.reason = "tp"

\* A price between the two thresholds gave no signal.
C32_BetweenWitness ==
    /\ HeldCall
    /\ RLt(HeldThreshold(cfg.stop_loss_pct), RInt(mcall.px))
    /\ RLt(RInt(mcall.px), HeldThreshold(cfg.take_profit_pct))
    /\ mcall.ret = NoDecision

C33_PositiveStop == HeldCall /\ RLt(Zero, cfg.stop_loss_pct)

\* C33, as stated: with a positive stop_loss_pct the sl exit is emitted on a
\* small favourable move (entry < px <= entry * (1 + stop_loss_pct), below
\* the take-profit price) and for no price below the entry price.
C33_StopOnlyOnFavourableMove ==
    C33_PositiveStop
        => /\ (/\ pos.entry < mcall.px
                /\ RLe(RInt(mcall.px), HeldThreshold(cfg.stop_loss_pct))
                /\ RLt(RInt(mcall.px), HeldThreshold(cfg.take_profit_pct)))
                   => mcall.ret.reason = "sl"
           /\ mcall.px < pos.entry => mcall.ret.reason # "sl"

\* C33, amended: with a positive stop_loss_pct the sl exit is emitted for
\* every price at or below entry * (1 + stop_loss_pct) that is below the
\* take-profit price: on a small favourable move, at the entry price and on
\* every adverse move; for a price below the entry price the result is
\* always the sl exit.
C33_StopOnFavourableAndAdverseMove ==
    C33_PositiveStop
        => /\ (/\ RLe(RInt(mcall.px), HeldThreshold(cfg.stop_loss_pct))
                /\ RLt(RInt(mcall.px), HeldThreshold(cfg.take_profit_pct)))
                   <=> mcall.ret.reason = "sl"
           /\ mcall.px < pos.entry
                => mcall.ret = [action |-> "exit", price |-> mcall.px,
                                reason |-> "sl"]

\* A price below the entry price gave the sl exit under the default
\* stop_loss_pct.
C33_Witness ==
    /\ C33_PositiveStop
    /\ cfg.stop_loss_pct = Frac(stop_loss_num, stop_loss_den)
    /\ mcall.px < pos.entry
    /\ mcall.ret.reason = "sl"
    /\ mcall.calls >= 2

\* The minute bucket of a time in seconds.
Bucket(ts) == ts \div 60

\* The tick of the step falls into a bucket later than the one of the candle
\* in progress.
C34_Later ==
    /\ scalp.last_candle_timestamp # NoTime
    /\ Bucket(scall'.ts) > Bucket(scalp.last_candle_timestamp)

C34_Finalizing ==
    /\ scall'.finalized
    /\ Len(scalp'.candles) = Len(scalp.candles) + 1
    /\ SubSeq(scalp'.candles, 1, Len(scalp.candles)) = scalp.candles
    /\ scalp'.candles[Len(scalp'.candles)].candle = scalp.current_candle
    /\ scalp'.current_candle.open = scall'.px
    /\ scalp'.current_candle.high = scall'.px
    /\ scalp'.current_candle.low = scall'.px
    /\ scalp'.current_candle.close = scall'.px

C34_Continuing ==
    /\ ~scall'.finalized
    /\ scalp'.candles = scalp.candles
    /\ scalp'.current_candle.close = scall'.px
    /\ IF scalp.current_candle = NoCandle
       THEN /\ scalp'.current_candle.open = scall'.px
            /\ scalp'.current_candle.high = scall'.px
            /\ scalp'.current_candle.low = scall'.px
       ELSE /\ scalp'.current_candle.open = scalp.current_candle.open
            /\ scalp'.current_candle.volume = scalp.current_candle.volume
            /\ scalp'.current_candle.high
                   = Max(scalp.current_candle.high, scall'.px)
            /\ scalp'.current_candle.low
                   = Min(scalp.current_candle.low, scall'.px)

C34_TickStep ==
    scall'.op = "on_tick_update"
        => IF C34_Later THEN C34_Finalizing ELSE C34_Continuing

\* C34: on_tick_update returns true exactly when the bucket of the tick is
\* later than the bucket of the candle in progress; then that candle goes
\* to the end of the history as it stood and a candle with open = high =
\* low = close = the tick price is started; otherwise it returns false, the
\* history is unchanged and only high, low and close of the candle in
\* progress move (the first tick starts the first candle and finalizes
\* nothing).
C34_FinalizeOnLaterBucket == [][C34_TickStep]_vars

\* A tick of the next minute finalized a candle that had seen two prices.
C34_Witness ==
    /\ scall.op = "on_tick_update"
    /\ scall.finalized
    /\ Len(scalp.candles) >= 2
    /\ scalp.candles[Len(scalp.candles)].candle.high = 110
    /\ scalp.candles[Len(scalp.candles)].candle.low = 100
    /\ scalp.current_candle.open = scall.px

\* C35: the candle history never holds more than 100 candles, and it is
\* always the most recent finalized candles in bucket order: with a tick in
\* every minute, row i from the end is the candle of the i-th minute before
\* the one in progress, so at capacity it is the oldest that has been
\* dropped.
C35_RollingHistory ==
    /\ Len(scalp.candles) <= 100
    /\ \A i \in 1..Len(scalp.candles) :
         scalp.candles[i].ts
             = scalp.last_candle_timestamp - 60 * (Len(scalp.candles) - i + 1)
    /\ scalp.last_candle_timestamp # NoTime
         => Len(scalp.candles)
                = Min(100, Bucket(scalp.last_candle_timestamp)
                               - Bucket(FirstTickTime))

\* The history is full and its first candle is no longer the one of the
\* first minute: candles have been dropped from the front.
C35_Witness ==
    /\ Len(scalp.candles) = 100
    /\ Bucket(scalp.candles[1].ts) >= Bucket(FirstTickTime) + 2
    /\ scalp.candles[100].ts = scalp.last_candle_timestamp - 60
    /\ scall.finalized

\* The conditions of the last generate_signal call, from the indicator
\* values it computed.
C36_CrossUp ==
    scall.ind.ema9_prev < scall.ind.ema21_prev
        /\ scall.ind.ema9_last > scall.ind.ema21_last
C36_CrossDown ==
    scall.ind.ema9_prev > scall.ind.ema21_prev
        /\ scall.ind.ema9_last < scall.ind.ema21_last
C36_Buy == C36_CrossUp \/ scall.ind.rsi < rsi_oversold
C36_Sell == C36_CrossDown \/ scall.ind.rsi > rsi_overbought

\* The close of the latest finalized candle.
C36_LatestClose == scalp.candles[Len(scalp.candles)].candle.close

\* C36: with at least 22 candles generate_signal returns one decision,
\* priced at the latest close: enter_long when the 9-EMA crosses above the
\* 21-EMA or RSI is below the oversold threshold (also when a sell condition
\* holds too), otherwise exit when the 9-EMA crosses below the 21-EMA or RSI
\* is above the overbought threshold, otherwise none.
C36_BuyBeforeSell ==
    (scall.op = "generate_signal" /\ scall.len >= 22)
        => scall.ret =
             IF C36_Buy
             THEN [action |-> "enter_long", price |-> C36_LatestClose,
                   reason |-> ""]
             ELSE IF C36_Sell
             THEN [action |-> "exit", price |-> C36_LatestClose, reason |-> ""]
             ELSE NoDecision

\* A buy and a sell condition held together and the result was enter_long,
\* priced at a close that differs from the first one.
C36_Witness ==
    /\ scall.op = "generate_signal"
    /\ scall.len >= 22
    /\ C36_Buy
    /\ C36_Sell
    /\ scall.ret.action = "enter_long"
    /\ scall.ret.price = C36_LatestClose
    /\ scall.changes > 0

\* The run_backtest pipeline never trades: every signal ends in approve_trade
\* (see C12), so the budget stays at its starting value, no position is
\* opened and nothing is logged.  The case of C37 (a budget that has fallen
\* below the drawdown limit) is therefore in no state the pipeline reaches.
PipelineNeverTrades ==
    /\ budget = RInt(cfg.total_budget_usdt)
    /\ pos = NoPos
    /\ trade_log = <<>>
    /\ rm.trade_history = <<>>

\* The number of records of the trade log with the given action.
CountRecords(action) ==
    Cardinality({i \in 1..Len(trade_log) : trade_log[i].action = action})

C38_Alternating ==
    /\ \A i \in 1..Len(trade_log) :
         trade_log[i].action = IF i % 2 = 1 THEN "ENTER" ELSE "EXIT"
    /\ CountRecords("ENTER") - CountRecords("EXIT")
           = IF pos # NoPos THEN 1 ELSE 0
    /\ Len(rm.trade_history) = Min(CountRecords("EXIT"), throttle_window)

C38_AppendStep ==
    /\ Len(trade_log') >= Len(trade_log)
    /\ SubSeq(trade_log', 1, Len(trade_log)) = trade_log
    /\ Len(rm'.trade_history) # Len(rm.trade_history)
         => Len(trade_log') = Len(trade_log) + 1

\* C38: the trade log only grows at its end; its records alternate ENTER,
\* EXIT, ENTER, ...; the ENTER records outnumber the EXIT records by one
\* when a position is open and by none when none is; and every EXIT record
\* comes with one outcome reported to update_trade_history (the window,
\* which keeps the latest throttle_window of them, has as many entries as
\* there are EXIT records up to its capacity, and grows only with the log).
C38_LogAlternates ==
    /\ []C38_Alternating
    /\ [][C38_AppendStep]_vars

\* A position was opened, closed and opened again.
C38_Witness ==
    /\ Len(trade_log) = 3
    /\ trade_log[2].action = "EXIT"
    /\ trade_log[3].action = "ENTER"
    /\ pos # NoPos
    /\ Len(rm.trade_history) = 1

\* The configuration has a non-negative starting budget and risks a
\* fraction between 0 and 1 of the budget on a trade.
C39_SaneConfig ==
    /\ cfg.total_budget_usdt >= 0
    /\ RLe(Zero, cfg.risk_per_trade_pct)
    /\ RLe(cfg.risk_per_trade_pct, RInt(1))

C39_FlatWitness ==
    /\ C39_SaneConfig
    /\ ecall.op = "act"
    /\ ecall.decision.action = "enter_long"
    /\ ecall.decision.price = 100
    /\ ecall.budget = Zero
    /\ cfg.total_budget_usdt > 0
    /\ pos = NoPos

====
